---- MODULE Spec2Model ----
(***************************************************************************)
(* A model of app.py, the listings aggregator: the URL and title           *)
(* normalisation helpers, the refresh_cache pipeline with its process-wide *)
(* cache, the Flask request handlers that read the cache, and the sort.    *)
(*                                                                         *)
(* Python strings are modelled as sequences of one-character strings, so   *)
(* that the regular expressions and urllib.parse are modelled by what they *)
(* do to the characters.  Optional values are <<>> (None) or <<v>>.        *)
(***************************************************************************)
EXTENDS Integers, Sequences, FiniteSets, TLC

----------------------------------------------------------------------------
(* Characters and string helpers (str methods used by the source).         *)

LowerLetters ==
  <<"a", "b", "c", "d", "e", "f", "g", "h", "i", "j", "k", "l", "m", "n", "o", "p", "q", "r", "s", "t", "u", "v", "w", "x", "y", "z">>

UpperLetters ==
  <<"A", "B", "C", "D", "E", "F", "G", "H", "I", "J", "K", "L", "M", "N", "O", "P", "Q", "R", "S", "T", "U", "V", "W", "X", "Y", "Z">>

DigitChars ==
  <<"0", "1", "2", "3", "4", "5", "6", "7", "8", "9">>

Range(f) == { f[i] : i \in DOMAIN f }

IsLower(c) == c \in Range(LowerLetters)

IsUpper(c) == c \in Range(UpperLetters)

IsDigit(c) == c \in Range(DigitChars)

IsAlpha(c) == IsLower(c) \/ IsUpper(c)

\* str.lower() on one character
LowerChar(c) ==
  IF IsUpper(c) THEN LowerLetters[CHOOSE i \in 1..26 : UpperLetters[i] = c] ELSE c

\* str.lower()
Lower(s) == [i \in 1..Len(s) |-> LowerChar(s[i])]

\* s[from:] with a 1-based first index
From(s, i) == SubSeq(s, i, Len(s))

\* s[:n]
Take(s, n) == SubSeq(s, 1, IF n < Len(s) THEN n ELSE Len(s))

\* str.find(c, start): the least 1-based index >= start holding c, 0 if none
Find(s, c, start) ==
  IF \E i \in start..Len(s) : s[i] = c
  THEN CHOOSE i \in start..Len(s) : s[i] = c /\ \A j \in start..(i - 1) : s[j] # c
  ELSE 0

\* str.rfind(c): the greatest 1-based index holding c, 0 if none
RFind(s, c) ==
  IF \E i \in 1..Len(s) : s[i] = c
  THEN CHOOSE i \in 1..Len(s) : s[i] = c /\ \A j \in (i + 1)..Len(s) : s[j] # c
  ELSE 0

\* sub occurs in s at 1-based position i
MatchAt(s, sub, i) ==
  /\ i >= 1
  /\ i + Len(sub) - 1 <= Len(s)
  /\ \A k \in 1..Len(sub) : s[i + k - 1] = sub[k]

\* "sub in s"
Contains(s, sub) == \E i \in 1..(Len(s) + 1) : MatchAt(s, sub, i)

\* str.startswith
StartsWith(s, pre) == MatchAt(s, pre, 1)

\* str.replace(c, "") for the characters of a set
RemoveChars(s, cs) == SelectSeq(s, LAMBDA c : c \notin cs)

\* str.lstrip(chars)
LStrip(s, cs) ==
  IF \E i \in 1..Len(s) : s[i] \notin cs
  THEN From(s, CHOOSE i \in 1..Len(s) :
                 s[i] \notin cs /\ \A j \in 1..(i - 1) : s[j] \in cs)
  ELSE <<>>

\* str.rstrip(chars)
RStrip(s, cs) ==
  IF \E i \in 1..Len(s) : s[i] \notin cs
  THEN SubSeq(s, 1, CHOOSE i \in 1..Len(s) :
                      s[i] \notin cs /\ \A j \in (i + 1)..Len(s) : s[j] \in cs)
  ELSE <<>>

Whitespace == {" ", "\t", "\n", "\r"}

\* str.strip()
Strip(s) == RStrip(LStrip(s, Whitespace), Whitespace)

----------------------------------------------------------------------------
(* urllib.parse as canonical_url uses it (CPython 3.11 urlsplit, urlparse, *)
(* urlunparse, urlunsplit).  Bracketed hosts, which make urlsplit raise,   *)
(* and non-ASCII hosts are outside the alphabet of the model.              *)

uses_netloc ==
  { <<>>,
    <<"f", "t", "p">>,
    <<"h", "t", "t", "p">>,
    <<"g", "o", "p", "h", "e", "r">>,
    <<"n", "n", "t", "p">>,
    <<"t", "e", "l", "n", "e", "t">>,
    <<"i", "m", "a", "p">>,
    <<"w", "a", "i", "s">>,
    <<"f", "i", "l", "e">>,
    <<"m", "m", "s">>,
    <<"h", "t", "t", "p", "s">>,
    <<"s", "h", "t", "t", "p">>,
    <<"s", "n", "e", "w", "s">>,
    <<"p", "r", "o", "s", "p", "e", "r", "o">>,
    <<"r", "t", "s", "p">>,
    <<"r", "t", "s", "p", "s">>,
    <<"r", "t", "s", "p", "u">>,
    <<"r", "s", "y", "n", "c">>,
    <<"s", "v", "n">>,
    <<"s", "v", "n", "+", "s", "s", "h">>,
    <<"s", "f", "t", "p">>,
    <<"n", "f", "s">>,
    <<"g", "i", "t">>,
    <<"g", "i", "t", "+", "s", "s", "h">>,
    <<"w", "s">>,
    <<"w", "s", "s">> }

uses_params ==
  { <<>>,
    <<"f", "t", "p">>,
    <<"h", "d", "l">>,
    <<"p", "r", "o", "s", "p", "e", "r", "o">>,
    <<"h", "t", "t", "p">>,
    <<"i", "m", "a", "p">>,
    <<"h", "t", "t", "p", "s">>,
    <<"s", "h", "t", "t", "p">>,
    <<"r", "t", "s", "p">>,
    <<"r", "t", "s", "p", "s">>,
    <<"r", "t", "s", "p", "u">>,
    <<"s", "i", "p">>,
    <<"s", "i", "p", "s">>,
    <<"m", "m", "s">>,
    <<"s", "f", "t", "p">>,
    <<"t", "e", "l">> }

scheme_chars == Range(LowerLetters) \cup Range(UpperLetters) \cup Range(DigitChars) \cup {"+", "-", "."}

\* _WHATWG_C0_CONTROL_OR_SPACE, as far as the model's alphabet reaches
C0_CONTROL_OR_SPACE == {" ", "\t", "\n", "\r"}

UNSAFE_URL_BYTES_TO_REMOVE == {"\t", "\r", "\n"}

\* _splitnetloc(url, 2): the netloc ends at the first of "/", "?", "#"
SplitNetlocEnd(url) ==
  IF \E i \in 3..Len(url) : url[i] \in {"/", "?", "#"}
  THEN CHOOSE i \in 3..Len(url) :
         /\ url[i] \in {"/", "?", "#"}
         /\ \A j \in 3..(i - 1) : url[j] \notin {"/", "?", "#"}
  ELSE Len(url) + 1

\* urlsplit(url, scheme): defscheme is the scheme given as the default
SplitQuery(scheme, netloc, url4, fragment) ==
  LET q == Find(url4, "?", 1)
  IN [scheme |-> scheme, netloc |-> netloc,
      path |-> IF q > 0 THEN SubSeq(url4, 1, q - 1) ELSE url4,
      query |-> IF q > 0 THEN From(url4, q + 1) ELSE <<>>,
      fragment |-> fragment]

SplitFragment(scheme, netloc, url3) ==
  LET h == Find(url3, "#", 1)
  IN SplitQuery(scheme, netloc,
                IF h > 0 THEN SubSeq(url3, 1, h - 1) ELSE url3,
                IF h > 0 THEN From(url3, h + 1) ELSE <<>>)

SplitNetloc(scheme, url2) ==
  LET hasNetloc == StartsWith(url2, <<"/", "/">>)
      d == SplitNetlocEnd(url2)
  IN SplitFragment(scheme,
                   IF hasNetloc THEN SubSeq(url2, 3, d - 1) ELSE <<>>,
                   IF hasNetloc THEN From(url2, d) ELSE url2)

SplitScheme(url1, defscheme) ==
  LET i == Find(url1, ":", 1)
      hasScheme == /\ i > 1
                   /\ IsAlpha(url1[1])
                   /\ \A k \in 1..(i - 1) : url1[k] \in scheme_chars
  IN SplitNetloc(IF hasScheme THEN Lower(SubSeq(url1, 1, i - 1))
                 ELSE RemoveChars(Strip(defscheme), UNSAFE_URL_BYTES_TO_REMOVE),
                 IF hasScheme THEN From(url1, i + 1) ELSE url1)

urlsplit_scheme(url0, defscheme) ==
  SplitScheme(RemoveChars(LStrip(url0, C0_CONTROL_OR_SPACE), UNSAFE_URL_BYTES_TO_REMOVE),
              defscheme)

\* _splitparams(url): <<path, params>>, called when ";" is in url
splitparams(url) ==
  LET slash == RFind(url, "/")
      i == IF slash > 0 THEN Find(url, ";", slash) ELSE Find(url, ";", 1)
  IN IF i = 0 THEN <<url, <<>>>>
     ELSE <<SubSeq(url, 1, i - 1), From(url, i + 1)>>

urlsplit(url) == urlsplit_scheme(url, <<>>)

\* urlparse(url, scheme)
ParseResult(r) ==
  LET split == r.scheme \in uses_params /\ Find(r.path, ";", 1) > 0
      pp == IF split THEN splitparams(r.path) ELSE <<r.path, <<>>>>
  IN [scheme |-> r.scheme, netloc |-> r.netloc, path |-> pp[1],
      params |-> pp[2], query |-> r.query, fragment |-> r.fragment]

urlparse_scheme(url, defscheme) == ParseResult(urlsplit_scheme(url, defscheme))

\* urlunsplit, line by line: the netloc, the scheme, the query, the fragment
WithNetloc(scheme, netloc, url0) ==
  IF \/ netloc # <<>>
     \/ /\ scheme # <<>>
        /\ scheme \in uses_netloc
        /\ ~StartsWith(url0, <<"/", "/">>)
  THEN <<"/", "/">> \o netloc \o
       (IF url0 # <<>> /\ url0[1] # "/" THEN <<"/">> \o url0 ELSE url0)
  ELSE url0

WithScheme(scheme, url1) ==
  IF scheme # <<>> THEN scheme \o <<":">> \o url1 ELSE url1

WithQuery(url2, query) ==
  IF query # <<>> THEN url2 \o <<"?">> \o query ELSE url2

WithFragment(url3, fragment) ==
  IF fragment # <<>> THEN url3 \o <<"#">> \o fragment ELSE url3

urlunsplit(scheme, netloc, url0, query, fragment) ==
  WithFragment(WithQuery(WithScheme(scheme, WithNetloc(scheme, netloc, url0)),
                         query),
               fragment)

urlunparse(scheme, netloc, url, params, query, fragment) ==
  urlunsplit(scheme, netloc,
             IF params # <<>> THEN url \o <<";">> \o params ELSE url,
             query, fragment)

urlparse(url) == urlparse_scheme(url, <<>>)

\* urlunparse of the six fields of a parse result
urlunparse_record(p) ==
  urlunparse(p.scheme, p.netloc, p.path, p.params, p.query, p.fragment)

\* canonical_url passing the fragment on to urlunparse
canonical_url_keeps_fragment(u) == urlunparse_record(urlparse(u))

WithoutFragment(p) ==
  urlunparse(p.scheme, p.netloc, p.path, p.params, p.query, <<>>)

canonical_url(u) == WithoutFragment(urlparse(u))

----------------------------------------------------------------------------
(* normalize_title: the regular expressions, character by character.       *)

\* \w of the re module, on the ASCII characters of the model
IsWordChar(c) == IsLower(c) \/ IsUpper(c) \/ IsDigit(c) \/ c = "_"

\* \b at the gap in front of the 1-based position i (i in 1..Len(s)+1)
WordBoundary(s, i) ==
  (i > 1 /\ IsWordChar(s[i - 1])) # (i <= Len(s) /\ IsWordChar(s[i]))

\* \b(w1|w2|...)\b matches at position i: the first alternative that fits,
\* 0 when none does; the result is the length of the match
WordMatchLen(s, words, i) ==
  LET fits(k) == /\ MatchAt(s, words[k], i)
                 /\ WordBoundary(s, i)
                 /\ WordBoundary(s, i + Len(words[k]))
  IN IF \E k \in 1..Len(words) : fits(k)
     THEN Len(words[CHOOSE k \in 1..Len(words) :
                      fits(k) /\ \A j \in 1..(k - 1) : ~fits(j)])
     ELSE 0

\* re.sub(r"\b(w1|w2|...)\b", "", s): the characters of every match are
\* dropped.  A match is a run of word characters between two boundaries,
\* so no match starts inside another and the scan finds every one of them.
DropMatches(s, len) ==
  SelectSeq([i \in 1..Len(s) |->
               IF \E j \in 1..i : i < j + len[j] THEN "" ELSE s[i]],
            LAMBDA c : c # "")

SubWords(s, words) ==
  DropMatches(s, [j \in 1..Len(s) |-> WordMatchLen(s, words, j)])

\* re.sub(<one or more characters of a class>, " ", s), given for every
\* position whether its character is of the class: every maximal run of
\* characters of the class becomes one space
SubRuns(s, in_class) ==
  LET marked == [i \in 1..Len(s) |->
                   IF ~in_class[i] THEN s[i]
                   ELSE IF i > 1 /\ in_class[i - 1] THEN "" ELSE " "]
  IN SelectSeq(marked, LAMBDA c : c # "")

\* re.sub(r"[^a-z0-9]+", " ", s)
SubNonAlnum(s) ==
  SubRuns(s, [i \in 1..Len(s) |-> ~(IsLower(s[i]) \/ IsDigit(s[i]))])

\* re.sub(r"\s+", " ", s)
SubSpaces(s) == SubRuns(s, [i \in 1..Len(s) |-> s[i] \in Whitespace])

\* normalize_title without the two substitutions of the region tokens
normalize_title_keeps_region(s0) == Strip(SubSpaces(SubNonAlnum(Lower(s0))))

normalize_title(s0) ==
  Strip(SubSpaces(SubNonAlnum(
    SubWords(SubWords(Lower(s0),
                      << <<"q", "l", "d">>,
                         <<"q", "u", "e", "e", "n", "s", "l", "a", "n", "d">> >>),
             << <<"a", "u", "s", "t", "r", "a", "l", "i", "a">> >>))))

----------------------------------------------------------------------------
(* make_id.  SHA-1 itself is not computed: the digest is modelled by a     *)
(* deterministic mixing of the characters, cut to ten hexadecimal digits   *)
(* as hexdigest()[:10] cuts it.                                            *)

HexDigits ==
  <<"0", "1", "2", "3", "4", "5", "6", "7", "8", "9", "a", "b", "c", "d", "e", "f">>

\* the printable ASCII characters, in code order: 32 (space) to 95, and 97
\* to 126 (the grave accent, 96, is outside the alphabet of the model)
AsciiLow ==
  <<" ", "!", "\"", "#", "$", "%", "&", "'", "(", ")", "*", "+", ",", "-", ".", "/", "0", "1", "2", "3", "4", "5", "6", "7", "8", "9", ":", ";", "<", "=", ">", "?", "@", "A", "B", "C", "D", "E", "F", "G", "H", "I", "J", "K", "L", "M", "N", "O", "P", "Q", "R", "S", "T", "U", "V", "W", "X", "Y", "Z", "[", "\\", "]", "^", "_">>

AsciiHigh ==
  <<"a", "b", "c", "d", "e", "f", "g", "h", "i", "j", "k", "l", "m", "n", "o", "p", "q", "r", "s", "t", "u", "v", "w", "x", "y", "z", "{", "|", "}", "~">>

\* ord(c)
Ord(c) ==
  IF c \in Range(AsciiLow)
  THEN 31 + (CHOOSE i \in 1..Len(AsciiLow) : AsciiLow[i] = c)
  ELSE IF c \in Range(AsciiHigh)
  THEN 96 + (CHOOSE i \in 1..Len(AsciiHigh) : AsciiHigh[i] = c)
  ELSE 0

IdLen == 10

\* what the character at position i adds to the k-th digit
MixTerm(s, k, i) == (Ord(s[i]) * (i * i + k * i + 7 * k + 1)) % 65521

\* the mixing of the characters lo..hi, for the k-th digit
RECURSIVE Mix(_, _, _, _)
Mix(s, k, lo, hi) ==
  IF lo > hi THEN k
  ELSE IF lo = hi THEN MixTerm(s, k, lo)
  ELSE LET mid == (lo + hi) \div 2
       IN (Mix(s, k, lo, mid) + Mix(s, k, mid + 1, hi)) % 65521

make_id(url) ==
  [k \in 1..IdLen |-> HexDigits[(((Mix(url, k, 1, Len(url)) \div 16) + Mix(url, k, 1, Len(url))) % 16) + 1]]

----------------------------------------------------------------------------
(* Optional values and the Listing dataclass.                              *)

None == <<>>

Some(v) == <<v>>

\* Python truthiness of an optional string: None and "" are falsy
Truthy(o) == o # None /\ o[1] # <<>>

\* a or b or c on optional strings whose last operand is a plain string
OrElse(a, b, c) == IF Truthy(a) THEN a[1] ELSE IF Truthy(b) THEN b[1] ELSE c

Listing(id, source, title, url, image_url, price_text, price_num, beds, baths, cars, land_text, land_m2, property_type, suburb_postcode) ==
  [id |-> id, source |-> source, title |-> title, url |-> url,
   image_url |-> image_url, price_text |-> price_text, price_num |-> price_num,
   beds |-> beds, baths |-> baths, cars |-> cars, land_text |-> land_text,
   land_m2 |-> land_m2, property_type |-> property_type,
   suburb_postcode |-> suburb_postcode]

----------------------------------------------------------------------------
(* Floats.  A float is modelled as an exact decimal: inf marks an overflow *)
(* to float("inf"), ip and fp are the digits before and after the point    *)
(* (ip without leading zeros, fp without trailing zeros).  The binary      *)
(* rounding of float() and of the products is not modelled.                *)

\* int(c) of a digit character
DigitVal(c) == (CHOOSE i \in 1..10 : DigitChars[i] = c) - 1

DropLeadingZeros(ds) == LStrip(ds, {0})

DropTrailingZeros(ds) == RStrip(ds, {0})

\* the largest finite float has 309 digits before the point
MaxFloatDigits == 309

Float(ip0, fp0) ==
  LET ip == DropLeadingZeros(ip0)
      fp == DropTrailingZeros(fp0)
  IN IF Len(ip) > MaxFloatDigits
     THEN [inf |-> TRUE, ip |-> <<>>, fp |-> <<>>]
     ELSE [inf |-> FALSE, ip |-> ip, fp |-> fp]

PosInf == [inf |-> TRUE, ip |-> <<>>, fp |-> <<>>]

\* a < b on digit sequences of equal length
RECURSIVE DigitsLess(_, _)
DigitsLess(a, b) ==
  IF a = <<>> \/ b = <<>> THEN a = <<>> /\ b # <<>>
  ELSE IF Head(a) # Head(b) THEN Head(a) < Head(b)
  ELSE DigitsLess(Tail(a), Tail(b))

\* a < b on non-negative floats
FloatLess(a, b) ==
  IF a.inf THEN FALSE
  ELSE IF b.inf THEN TRUE
  ELSE IF Len(a.ip) # Len(b.ip) THEN Len(a.ip) < Len(b.ip)
  ELSE IF a.ip # b.ip THEN DigitsLess(a.ip, b.ip)
  ELSE DigitsLess(a.fp, b.fp)

\* digit sequences, least significant digit first: a + b + carry
RECURSIVE AddRev(_, _, _)
AddRev(a, b, carry) ==
  IF a = <<>> /\ b = <<>> THEN (IF carry = 0 THEN <<>> ELSE <<carry>>)
  ELSE LET x == IF a = <<>> THEN 0 ELSE Head(a)
           y == IF b = <<>> THEN 0 ELSE Head(b)
           t == x + y + carry
       IN <<t % 10>> \o AddRev(IF a = <<>> THEN <<>> ELSE Tail(a),
                               IF b = <<>> THEN <<>> ELSE Tail(b), t \div 10)

\* a * d + carry for one digit d
RECURSIVE MulDigitRev(_, _, _)
MulDigitRev(a, d, carry) ==
  IF a = <<>> THEN (IF carry = 0 THEN <<>> ELSE <<carry>>)
  ELSE LET t == Head(a) * d + carry
       IN <<t % 10>> \o MulDigitRev(Tail(a), d, t \div 10)

RECURSIVE MulRev(_, _)
MulRev(a, b) ==
  IF b = <<>> THEN <<>>
  ELSE AddRev(MulDigitRev(a, Head(b), 0), <<0>> \o MulRev(a, Tail(b)), 0)

Reverse(s) == [i \in 1..Len(s) |-> s[Len(s) + 1 - i]]

RECURSIVE Zeros(_)
Zeros(n) == IF n <= 0 THEN <<>> ELSE <<0>> \o Zeros(n - 1)

\* a * b on finite floats
\* the digits q of a product, cut at the decimal point
PointAt(q, scale) ==
  Float(SubSeq(q, 1, Len(q) - scale), SubSeq(q, Len(q) - scale + 1, Len(q)))

\* the digits p of a product with scale digits after the point
Scaled(p, scale) == PointAt(Zeros(scale - Len(p)) \o p, scale)

FloatMul(a, b) ==
  IF a.inf \/ b.inf THEN PosInf
  ELSE Scaled(Reverse(MulRev(Reverse(a.ip \o a.fp), Reverse(b.ip \o b.fp))),
              Len(a.fp) + Len(b.fp))

\* float(raw) for raw matching [0-9][0-9.]*: None stands for ValueError
ParseFloat(raw) ==
  LET dot == Find(raw, ".", 1)
      ipc == IF dot = 0 THEN raw ELSE SubSeq(raw, 1, dot - 1)
      fpc == IF dot = 0 THEN <<>> ELSE From(raw, dot + 1)
  IN IF dot > 0 /\ Find(raw, ".", dot + 1) > 0 THEN None
     ELSE Some(Float([i \in 1..Len(ipc) |-> DigitVal(ipc[i])],
                     [i \in 1..Len(fpc) |-> DigitVal(fpc[i])]))

\* 10000.0 and 4046.8564224
HECTARE_M2 == Float(<<1, 0, 0, 0, 0>>, <<>>)

ACRE_M2 == Float(<<4, 0, 4, 6>>, <<8, 5, 6, 4, 2, 2, 4>>)

----------------------------------------------------------------------------
(* parse_money_best_effort and parse_land_to_m2_best_effort.               *)

IsNumChar(c) == IsDigit(c) \/ c = "," \/ c = "."

\* the end of the greedy run [0-9][0-9,\.]* that starts at position i
NumRunEnd(s, i) ==
  IF \E j \in (i + 1)..Len(s) : ~IsNumChar(s[j])
  THEN (CHOOSE j \in (i + 1)..Len(s) :
          ~IsNumChar(s[j]) /\ \A k \in (i + 1)..(j - 1) : IsNumChar(s[k])) - 1
  ELSE Len(s)

\* the position after \s* from position i
SkipSpaces(s, i) ==
  IF \E j \in i..Len(s) : s[j] \notin Whitespace
  THEN CHOOSE j \in i..Len(s) :
         s[j] \notin Whitespace /\ \A k \in i..(j - 1) : s[k] \in Whitespace
  ELSE Len(s) + 1

\* re.search(r"\$\s*([0-9][0-9,\.]*)", text): group(1), None when no match
MoneyGroup(s) ==
  LET hit(i) == /\ s[i] = "$"
                /\ SkipSpaces(s, i + 1) <= Len(s)
                /\ IsDigit(s[SkipSpaces(s, i + 1)])
  IN IF \E i \in 1..Len(s) : hit(i)
     THEN LET i == CHOOSE i \in 1..Len(s) : hit(i) /\ \A j \in 1..(i - 1) : ~hit(j)
              b == SkipSpaces(s, i + 1)
          IN Some(SubSeq(s, b, NumRunEnd(s, b)))
     ELSE None

parse_money_best_effort(text) ==
  IF ~Truthy(text) THEN None
  ELSE LET m == MoneyGroup(text[1])
       IN IF m = None THEN None
          ELSE ParseFloat(Strip(RemoveChars(m[1], {","})))

\* re.search(r"([0-9][0-9,\.]*)<unit>", t, flags=re.I) for one of the unit
\* spellings: the group of the leftmost match, None when no match
UnitGroup(t, units) ==
  LET hit(i) == /\ IsDigit(t[i])
                /\ \E u \in units : MatchAt(Lower(t), u, NumRunEnd(t, i) + 1)
  IN IF \E i \in 1..Len(t) : hit(i)
     THEN LET i == CHOOSE i \in 1..Len(t) : hit(i) /\ \A j \in 1..(i - 1) : ~hit(j)
          IN Some(SubSeq(t, i, NumRunEnd(t, i)))
     ELSE None

\* the two spellings of the square-metre pattern: "m" followed by the
\* characters U+00AC and U+2264, as the source file has them, and "m2"
SQUARE_METRE_UNITS == { <<"m", "U+00AC", "U+2264">>, <<"m", "2">> }

\* float(num) * factor, None on ValueError
TimesParsed(f, factor) ==
  IF f = None THEN None ELSE Some(FloatMul(f[1], factor))

TimesFloat(num, factor) == TimesParsed(ParseFloat(RemoveChars(num, {","})), factor)

\* lines 157-179, given the groups of the three searches on t
LandOfGroups(m2, ha, ac) ==
  IF m2 # None THEN ParseFloat(RemoveChars(m2[1], {","}))
  ELSE IF ha # None \/ ac # None
  THEN TimesFloat(IF ha # None THEN ha[1] ELSE ac[1],
                  IF ha # None THEN HECTARE_M2 ELSE ACRE_M2)
  ELSE None

\* t = text.replace(" ", "")
LandOfText(t) ==
  LandOfGroups(UnitGroup(t, SQUARE_METRE_UNITS),
               UnitGroup(t, { <<"h", "a">> }),
               UnitGroup(t, { <<"a", "c", "r", "e">> }))

parse_land_to_m2_best_effort(text) ==
  IF ~Truthy(text) THEN None
  ELSE LandOfText(RemoveChars(text[1], {" "}))

----------------------------------------------------------------------------
(* urljoin (CPython 3.11), which the discovery functions apply to hrefs.   *)

uses_relative ==
  { <<>>,
    <<"f", "t", "p">>,
    <<"h", "t", "t", "p">>,
    <<"g", "o", "p", "h", "e", "r">>,
    <<"n", "n", "t", "p">>,
    <<"i", "m", "a", "p">>,
    <<"w", "a", "i", "s">>,
    <<"f", "i", "l", "e">>,
    <<"h", "t", "t", "p", "s">>,
    <<"s", "h", "t", "t", "p">>,
    <<"m", "m", "s">>,
    <<"p", "r", "o", "s", "p", "e", "r", "o">>,
    <<"r", "t", "s", "p">>,
    <<"r", "t", "s", "p", "s">>,
    <<"r", "t", "s", "p", "u">>,
    <<"s", "f", "t", "p">>,
    <<"s", "v", "n">>,
    <<"s", "v", "n", "+", "s", "s", "h">>,
    <<"w", "s">>,
    <<"w", "s", "s">> }

\* str.split("/")
RECURSIVE SplitSlash(_)
SplitSlash(s) ==
  LET i == Find(s, "/", 1)
  IN IF i = 0 THEN <<s>>
     ELSE <<SubSeq(s, 1, i - 1)>> \o SplitSlash(From(s, i + 1))

\* "/".join(parts)
RECURSIVE JoinSlash(_)
JoinSlash(parts) ==
  IF parts = <<>> THEN <<>>
  ELSE IF Len(parts) = 1 THEN parts[1]
  ELSE parts[1] \o <<"/">> \o JoinSlash(Tail(parts))

\* segments[1:-1] = filter(None, segments[1:-1])
DropEmptyInner(segs) ==
  IF Len(segs) <= 2 THEN segs
  ELSE <<segs[1]>> \o SelectSeq(SubSeq(segs, 2, Len(segs) - 1), LAMBDA x : x # <<>>)
       \o <<segs[Len(segs)]>>

\* the loop that resolves "." and ".." segments
RECURSIVE ResolveDots(_, _)
ResolveDots(segs, acc) ==
  IF segs = <<>> THEN acc
  ELSE IF Head(segs) = <<".", ".">>
       THEN ResolveDots(Tail(segs),
                        IF acc = <<>> THEN acc ELSE SubSeq(acc, 1, Len(acc) - 1))
  ELSE IF Head(segs) = <<".">> THEN ResolveDots(Tail(segs), acc)
  ELSE ResolveDots(Tail(segs), Append(acc, Head(segs)))

\* urlunparse(... "/".join(resolved_path) or "/" ...)
OrSlash(joined) == IF joined = <<>> THEN <<"/">> ELSE joined

\* urljoin, lines after the early returns, given the parsed base b and url u
\* and the path segments before and after the loop over "." and ".."
JoinResolved(b, u, segments, resolved0) ==
  urlunparse(u.scheme,
             IF u.scheme \in uses_netloc /\ u.netloc = <<>> THEN b.netloc ELSE u.netloc,
             OrSlash(JoinSlash(IF segments[Len(segments)] \in { <<".">>, <<".", ".">> }
                               THEN Append(resolved0, <<>>) ELSE resolved0)),
             u.params, u.query, u.fragment)

JoinSegments(b, u, segments) ==
  JoinResolved(b, u, segments, ResolveDots(segments, <<>>))

JoinPaths(b, u, bparts) ==
  JoinSegments(b, u,
               IF u.path # <<>> /\ u.path[1] = "/"
               THEN SplitSlash(u.path)
               ELSE DropEmptyInner(
                      (IF bparts[Len(bparts)] # <<>>
                       THEN SubSeq(bparts, 1, Len(bparts) - 1) ELSE bparts)
                      \o SplitSlash(u.path)))

JoinParsed(b, u, url) ==
  IF u.scheme # b.scheme \/ u.scheme \notin uses_relative THEN url
  ELSE IF u.scheme \in uses_netloc /\ u.netloc # <<>>
  THEN urlunparse(u.scheme, u.netloc, u.path, u.params, u.query, u.fragment)
  ELSE IF u.path = <<>> /\ u.params = <<>>
  THEN urlunparse(u.scheme,
                  IF u.scheme \in uses_netloc /\ u.netloc = <<>> THEN b.netloc ELSE u.netloc,
                  b.path, b.params,
                  IF u.query = <<>> THEN b.query ELSE u.query, u.fragment)
  ELSE JoinPaths(b, u, SplitSlash(b.path))

JoinOnto(b, url) == JoinParsed(b, urlparse_scheme(url, b.scheme), url)

urljoin(base, url) ==
  IF base = <<>> THEN url
  ELSE IF url = <<>> THEN base
  ELSE JoinOnto(urlparse(base), url)

----------------------------------------------------------------------------
(* Source constants and the three discovery functions.  A search page is   *)
(* modelled by its anchors: href is the attribute value, text is           *)
(* a.get_text(" ", strip=True).  Fetching the page may raise instead.      *)

RAYWHITE_BASE == <<"h", "t", "t", "p", "s", ":", "/", "/", "r", "a", "y", "w", "h", "i", "t", "e", "g", "l", "a", "d", "s", "t", "o", "n", "e", ".", "c", "o", "m", ".", "a", "u">>

DOMAIN_BASE == <<"h", "t", "t", "p", "s", ":", "/", "/", "w", "w", "w", ".", "d", "o", "m", "a", "i", "n", ".", "c", "o", "m", ".", "a", "u">>

REA_BASE == <<"h", "t", "t", "p", "s", ":", "/", "/", "w", "w", "w", ".", "r", "e", "a", "l", "e", "s", "t", "a", "t", "e", ".", "c", "o", "m", ".", "a", "u">>

CACHE_TTL_SECONDS == 30 * 60

Anchor(href, text) == [href |-> href, text |-> text]

\* a.get_text(...) or None
TextOrNone(text) == IF text = <<>> THEN None ELSE Some(text)

\* the seen-set loop: the first item of each canonical URL, in order
\* the seen-set loop over items whose url is canonical already
RECURSIVE FirstPerSeen(_, _)
FirstPerSeen(found, seen) ==
  IF found = <<>> THEN <<>>
  ELSE IF Head(found).url \in seen THEN FirstPerSeen(Tail(found), seen)
  ELSE <<Head(found)>> \o FirstPerSeen(Tail(found), seen \cup {Head(found).url})

\* the seen-set loop: the first item of each canonical URL, in order
FirstPerUrl(found, seen) ==
  FirstPerSeen([i \in 1..Len(found) |->
                  [title |-> found[i].title, url |-> canonical_url(found[i].url)]],
               seen)

\* [item(a) for a in anchors if keep(a)], given keep(a) and item(a) for
\* every anchor
Kept(kept, items) == [k \in 1..Len(kept) |-> items[kept[k]]]

Collect(keep, items) ==
  Kept(SelectSeq([i \in 1..Len(items) |-> i], LAMBDA i : keep[i]), items)

raywhite_search_urls(anchors) ==
  FirstPerUrl(Collect([i \in 1..Len(anchors) |->
                         /\ anchors[i].href # <<>>
                         /\ anchors[i].text # <<>>
                         /\ Contains(anchors[i].href, <<"/", "p", "r", "o", "p", "e", "r", "t", "i", "e", "s", "/">>)],
                      [i \in 1..Len(anchors) |->
                         [title |-> Some(anchors[i].text),
                          url |-> urljoin(RAYWHITE_BASE, anchors[i].href)]]), {})

\* re.search(r"-\d{7,}$", full): a hyphen followed by seven or more digits
\* that run to the end of the string
EndsWithListingNumber(full) ==
  \E i \in 1..Len(full) :
    /\ full[i] = "-"
    /\ Len(full) - i >= 7
    /\ \A j \in (i + 1)..Len(full) : IsDigit(full[j])

\* lines 338-352, given full = urljoin(DOMAIN_BASE, href) of every anchor
DomainItems(anchors, full) ==
  FirstPerUrl(Collect([i \in 1..Len(anchors) |->
                         /\ StartsWith(full[i], DOMAIN_BASE \o <<"/">>)
                         /\ EndsWithListingNumber(full[i])],
                      [i \in 1..Len(anchors) |->
                         [title |-> TextOrNone(anchors[i].text),
                          url |-> canonical_url(full[i])]]), {})

domain_search_urls(anchors) ==
  DomainItems(anchors,
              [i \in 1..Len(anchors) |-> urljoin(DOMAIN_BASE, Strip(anchors[i].href))])

\* lines 405-417, given full = urljoin(REA_BASE, href) of every anchor
ReaItems(anchors, full) ==
  FirstPerUrl(Collect([i \in 1..Len(anchors) |->
                         StartsWith(full[i], REA_BASE \o <<"/", "p", "r", "o", "p", "e", "r", "t", "y", "-">>)],
                      [i \in 1..Len(anchors) |->
                         [title |-> TextOrNone(anchors[i].text),
                          url |-> canonical_url(full[i])]]), {})

rea_search_urls(anchors) ==
  ReaItems(anchors,
           [i \in 1..Len(anchors) |-> urljoin(REA_BASE, Strip(anchors[i].href))])

\* the sources list of refresh_cache, in its order
SOURCES == <<"raywhite", "domain", "rea">>

search_fn(source_name, anchors) ==
  CASE source_name = "raywhite" -> raywhite_search_urls(anchors)
    [] source_name = "domain" -> domain_search_urls(anchors)
    [] source_name = "rea" -> rea_search_urls(anchors)

----------------------------------------------------------------------------
(* refresh_cache: building a listing, the dedupe loop and the id index.    *)

\* details = {} : every details.get(...) is None
EmptyDetails ==
  [title |-> None, image_url |-> None, price_text |-> None, beds |-> None,
   baths |-> None, cars |-> None, land_text |-> None, property_type |-> None,
   suburb_postcode |-> None]

\* the body of the loop over base_list, after parse_fn returned details or
\* raised (details = EmptyDetails)
\* lines 490-511: the Listing of an item, given url = canonical_url(item["url"])
ListingOf(source_name, url, item, details) ==
  Listing(make_id(url), source_name, OrElse(details.title, item.title, url), url,
          details.image_url, details.price_text,
          parse_money_best_effort(details.price_text),
          details.beds, details.baths, details.cars, details.land_text,
          parse_land_to_m2_best_effort(details.land_text),
          details.property_type, details.suburb_postcode)

\* the loop body taking the title from details alone: details.get("title") or url
BuildListingDetailsTitle(source_name, item, details) ==
  ListingOf(source_name, canonical_url(item.url), [item EXCEPT !.title = None], details)

BuildListing(source_name, item, details) ==
  ListingOf(source_name, canonical_url(item.url), item, details)

\* key = normalize_title(l.title) or l.url
OrUrl(k, url) == IF k # <<>> THEN k ELSE url

DedupeKey(l) == OrUrl(normalize_title(l.title), l.url)

\* the seen-set loop over combined, given the key of each listing
RECURSIVE DedupeFrom(_, _, _)
DedupeFrom(combined, keys, seen) ==
  IF combined = <<>> THEN <<>>
  ELSE IF Head(keys) \in seen THEN DedupeFrom(Tail(combined), Tail(keys), seen)
  ELSE <<Head(combined)>>
       \o DedupeFrom(Tail(combined), Tail(keys), seen \cup {Head(keys)})

\* {l.id: l for l in deduped}: a later listing replaces an earlier one
IdIndex(deduped) ==
  [id \in { deduped[i].id : i \in 1..Len(deduped) } |->
     deduped[CHOOSE i \in 1..Len(deduped) :
               /\ deduped[i].id = id
               /\ \A j \in (i + 1)..Len(deduped) : deduped[j].id # id]]

----------------------------------------------------------------------------
(* sort_listings.  The ints (beds, baths) are decimals without digits      *)
(* after the point, so that one order covers the ints, the floats and the  *)
(* fallbacks float("inf") and -float("inf").                               *)

NaN == [inf |-> FALSE, ip |-> <<>>, fp |-> <<>>, nan |-> TRUE]

\* math.isnan(x)
IsNaN(x) == "nan" \in DOMAIN x

NegInf == [inf |-> TRUE, ip |-> <<>>, fp |-> <<>>, neg |-> TRUE]

\* safe_num(x, fallback) on an optional number
safe_num(x, fallback) ==
  IF x # None /\ ~IsNaN(x[1]) THEN x[1] ELSE fallback

\* a < b on the values safe_num returns
NumLess(a, b) ==
  IF a = b THEN FALSE
  ELSE IF a = NegInf THEN TRUE
  ELSE IF b = NegInf THEN FALSE
  ELSE FloatLess(a, b)

\* list.sort on <<key, item>> pairs: insert a pair behind every pair whose
\* key is not greater than its own, which keeps equal keys in input order
RECURSIVE InsertStable(_, _)
InsertStable(sorted, p) ==
  IF sorted = <<>> THEN <<p>>
  ELSE IF NumLess(p[1], Head(sorted)[1]) THEN <<p>> \o sorted
  ELSE <<Head(sorted)>> \o InsertStable(Tail(sorted), p)

RECURSIVE SortPairs(_, _)
SortPairs(pairs, acc) ==
  IF pairs = <<>> THEN acc
  ELSE SortPairs(Tail(pairs), InsertStable(acc, Head(pairs)))

\* sorted(listings, key=..., reverse=...), given the key of every listing:
\* with reverse the list is reversed, sorted and reversed back, so that
\* equal keys keep input order
sorted(listings, keys, reverse) ==
  LET pairs == [i \in 1..Len(listings) |-> <<keys[i], listings[i]>>]
      res == IF reverse THEN Reverse(SortPairs(Reverse(pairs), <<>>))
             ELSE SortPairs(pairs, <<>>)
  IN [i \in 1..Len(res) |-> res[i][2]]

\* [safe_num(l.<field>, fallback) for l in listings]
SafeNums(nums, fallback) == [i \in 1..Len(nums) |-> safe_num(nums[i], fallback)]

\* sort_listings with float("inf") as the fallback of the descending sorts too
sort_listings_one_fallback(listings, sort_key) ==
  CASE sort_key = "newest" -> listings
    [] sort_key = "price_asc" ->
         sorted(listings, SafeNums([i \in 1..Len(listings) |-> listings[i].price_num], PosInf), FALSE)
    [] sort_key = "price_desc" ->
         sorted(listings, SafeNums([i \in 1..Len(listings) |-> listings[i].price_num], PosInf), TRUE)
    [] sort_key = "land_asc" ->
         sorted(listings, SafeNums([i \in 1..Len(listings) |-> listings[i].land_m2], PosInf), FALSE)
    [] sort_key = "land_desc" ->
         sorted(listings, SafeNums([i \in 1..Len(listings) |-> listings[i].land_m2], PosInf), TRUE)
    [] sort_key = "beds_asc" ->
         sorted(listings, SafeNums([i \in 1..Len(listings) |-> listings[i].beds], PosInf), FALSE)
    [] sort_key = "beds_desc" ->
         sorted(listings, SafeNums([i \in 1..Len(listings) |-> listings[i].beds], PosInf), TRUE)
    [] sort_key = "baths_asc" ->
         sorted(listings, SafeNums([i \in 1..Len(listings) |-> listings[i].baths], PosInf), FALSE)
    [] sort_key = "baths_desc" ->
         sorted(listings, SafeNums([i \in 1..Len(listings) |-> listings[i].baths], PosInf), TRUE)
    [] OTHER -> listings

sort_listings(listings, sort_key) ==
  CASE sort_key = "newest" -> listings
    [] sort_key = "price_asc" ->
         sorted(listings, SafeNums([i \in 1..Len(listings) |-> listings[i].price_num], PosInf), FALSE)
    [] sort_key = "price_desc" ->
         sorted(listings, SafeNums([i \in 1..Len(listings) |-> listings[i].price_num], NegInf), TRUE)
    [] sort_key = "land_asc" ->
         sorted(listings, SafeNums([i \in 1..Len(listings) |-> listings[i].land_m2], PosInf), FALSE)
    [] sort_key = "land_desc" ->
         sorted(listings, SafeNums([i \in 1..Len(listings) |-> listings[i].land_m2], NegInf), TRUE)
    [] sort_key = "beds_asc" ->
         sorted(listings, SafeNums([i \in 1..Len(listings) |-> listings[i].beds], PosInf), FALSE)
    [] sort_key = "beds_desc" ->
         sorted(listings, SafeNums([i \in 1..Len(listings) |-> listings[i].beds], NegInf), TRUE)
    [] sort_key = "baths_asc" ->
         sorted(listings, SafeNums([i \in 1..Len(listings) |-> listings[i].baths], PosInf), FALSE)
    [] sort_key = "baths_desc" ->
         sorted(listings, SafeNums([i \in 1..Len(listings) |-> listings[i].baths], NegInf), TRUE)
    [] OTHER -> listings

----------------------------------------------------------------------------
(* The inputs of the model: what the three sites can serve.  A search page *)
(* is a sequence of anchors, a detail page is the dict parse_fn returns    *)
(* for it; each fetch may also raise.                                      *)

T_QLD == <<"5", " ", "E", "x", "a", "m", "p", "l", "e", " ", "S", "t", ",", " ", "G", "l", "a", "d", "s", "t", "o", "n", "e", " ", "Q", "L", "D", " ", "4", "6", "8", "0">>

T_UPPER == <<"5", " ", "E", "X", "A", "M", "P", "L", "E", " ", "S", "T", " ", "G", "L", "A", "D", "S", "T", "O", "N", "E">>

T_UPPER_POSTCODE == <<"5", " ", "E", "X", "A", "M", "P", "L", "E", " ", "S", "T", " ", "G", "L", "A", "D", "S", "T", "O", "N", "E", " ", "4", "6", "8", "0">>

T_CALLIOPE == <<"7", " ", "S", "a", "m", "p", "l", "e", " ", "R", "d", ",", " ", "C", "a", "l", "l", "i", "o", "p", "e", " ", "Q", "u", "e", "e", "n", "s", "l", "a", "n", "d", " ", "4", "6", "8", "0">>

\* a Ray White results page: one listing, linked twice (the second link
\* differs by its fragment), and a link that is no listing
RW_PAGE ==
  << Anchor(<<"/", "p", "r", "o", "p", "e", "r", "t", "i", "e", "s", "/", "5", "-", "e", "x", "a", "m", "p", "l", "e", "-", "s", "t">>, T_QLD),
     Anchor(<<"/", "p", "r", "o", "p", "e", "r", "t", "i", "e", "s", "/", "5", "-", "e", "x", "a", "m", "p", "l", "e", "-", "s", "t", "#", "m", "a", "p">>, <<"V", "i", "e", "w", " ", "m", "a", "p">>),
     Anchor(<<"/", "a", "b", "o", "u", "t">>, <<"A", "b", "o", "u", "t", " ", "u", "s">>) >>

\* a Ray White results page whose listing is hosted on domain.com.au
RW_FOREIGN ==
  << Anchor(<<"h", "t", "t", "p", "s", ":", "/", "/", "w", "w", "w", ".", "d", "o", "m", "a", "i", "n", ".", "c", "o", "m", ".", "a", "u", "/", "p", "r", "o", "p", "e", "r", "t", "i", "e", "s", "/", "l", "o", "t", "-", "1", "2", "3", "4", "5", "6", "7">>, <<"L", "o", "t", " ", "7", " ", "S", "a", "m", "p", "l", "e", " ", "R", "d">>) >>

DM_ONE ==
  << Anchor(<<"/", "p", "r", "o", "p", "e", "r", "t", "i", "e", "s", "/", "l", "o", "t", "-", "1", "2", "3", "4", "5", "6", "7">>, <<>>),
     Anchor(<<"/", "n", "e", "w", "s">>, <<"N", "e", "w", "s">>) >>

DM_TWO ==
  << Anchor(<<"/", "5", "-", "e", "x", "a", "m", "p", "l", "e", "-", "s", "t", "-", "1", "2", "3", "4", "5", "6", "8">>, T_UPPER),
     Anchor(<<" ", "/", "p", "r", "o", "p", "e", "r", "t", "i", "e", "s", "/", "l", "o", "t", "-", "1", "2", "3", "4", "5", "6", "7", " ">>, <<>>) >>

RE_ONE ==
  << Anchor(<<"/", "p", "r", "o", "p", "e", "r", "t", "y", "-", "l", "a", "n", "d", "-", "q", "l", "d", "-", "c", "a", "l", "l", "i", "o", "p", "e", "-", "7", "0", "0", "0", "0", "0", "1">>, <<"L", "a", "n", "d", " ", "i", "n", " ", "C", "a", "l", "l", "i", "o", "p", "e">>),
     Anchor(<<"/", "b", "u", "y">>, <<"B", "u", "y">>) >>

\* the pages a search may find, per source
SearchPages(source_name) ==
  CASE source_name = "raywhite" -> { <<>>, RW_PAGE, RW_FOREIGN }
    [] source_name = "domain" -> { <<>>, DM_ONE, DM_TWO }
    [] source_name = "rea" -> { <<>>, RE_ONE }

\* the single page per source of the runs with two request threads
SearchPagesSmall(source_name) ==
  CASE source_name = "raywhite" -> { RW_FOREIGN }
    [] source_name = "domain" -> { <<>> }
    [] source_name = "rea" -> { <<>> }

Int3 == Float(<<3>>, <<>>)

Int2 == Float(<<2>>, <<>>)

Int1 == Float(<<1>>, <<>>)

\* what parse_fn returns for a detail page, per source
RW_DETAILS ==
  [title |-> Some(T_QLD), image_url |-> Some(<<"h", "t", "t", "p", "s", ":", "/", "/", "i", "m", "g", "/", "1", ".", "j", "p", "g">>),
   price_text |-> Some(<<"$", "4", "5", "0", ",", "0", "0", "0">>), beds |-> Some(Int3), baths |-> Some(Int2),
   cars |-> Some(Int1), land_text |-> Some(<<"1", ",", "0", "1", "2", " ", "m", "2">>),
   property_type |-> Some(<<"H", "o", "u", "s", "e">>), suburb_postcode |-> Some(<<"G", "l", "a", "d", "s", "t", "o", "n", "e", " ", "4", "6", "8", "0">>)]

DM_DETAILS ==
  [title |-> Some(T_UPPER_POSTCODE), image_url |-> None,
   price_text |-> Some(<<"O", "f", "f", "e", "r", "s", " ", "O", "v", "e", "r", " ", "$", "3", "9", "9", ",", "0", "0", "0">>), beds |-> None, baths |-> None,
   cars |-> None, land_text |-> Some(<<"0", ".", "5", "h", "a">>),
   property_type |-> Some(<<"V", "a", "c", "a", "n", "t", " ", "L", "a", "n", "d">>), suburb_postcode |-> None]

RE_DETAILS ==
  [title |-> Some(T_CALLIOPE), image_url |-> Some(<<"h", "t", "t", "p", "s", ":", "/", "/", "i", "m", "g", "/", "7", ".", "j", "p", "g">>),
   price_text |-> Some(<<"C", "o", "n", "t", "a", "c", "t", " ", "A", "g", "e", "n", "t">>), beds |-> Some(Int2), baths |-> None,
   cars |-> None, land_text |-> Some(<<"2", "a", "c", "r", "e", "s">>),
   property_type |-> Some(<<"L", "a", "n", "d">>), suburb_postcode |-> None]

DetailPages(source_name) ==
  CASE source_name = "raywhite" -> { RW_DETAILS }
    [] source_name = "domain" -> { DM_DETAILS }
    [] source_name = "rea" -> { RE_DETAILS }

\* request.args.get("sort", "newest") of the requests of the model
SortArgs == { "newest", "price_asc", "price_desc" }

UNKNOWN_ID == <<"0", "0", "0", "0", "0", "0", "0", "0", "0", "0">>

\* the listing_id of the /p/<listing_id> requests of the model
ListingIdArgs ==
  { make_id(<<"h", "t", "t", "p", "s", ":", "/", "/", "w", "w", "w", ".", "d", "o", "m", "a", "i", "n", ".", "c", "o", "m", ".", "a", "u", "/", "p", "r", "o", "p", "e", "r", "t", "i", "e", "s", "/", "l", "o", "t", "-", "1", "2", "3", "4", "5", "6", "7">>), UNKNOWN_ID }

----------------------------------------------------------------------------
(* The functions above, tabulated once over the inputs of the model: what  *)
(* search_fn returns for each page, the listing refresh_cache builds for   *)
(* each item and each outcome of parse_fn, and the key of each listing.    *)

SourceIndex == 1..Len(SOURCES)

SearchResults ==
  [s \in SourceIndex |-> { search_fn(SOURCES[s], page) : page \in SearchPages(SOURCES[s]) }]

SearchResultsSmall ==
  [s \in SourceIndex |->
     { search_fn(SOURCES[s], page) : page \in SearchPagesSmall(SOURCES[s]) }]

\* the items the searches of a source can return
Items ==
  [s \in SourceIndex |->
     UNION { Range(base_list) : base_list \in SearchResults[s] }]

\* the dicts parse_fn can leave in details: a page's, or {} when it raised
DetailsOf ==
  [s \in SourceIndex |-> DetailPages(SOURCES[s]) \cup {EmptyDetails}]

Built ==
  [s \in SourceIndex |->
     [item \in Items[s] |->
        [details \in DetailsOf[s] |-> BuildListing(SOURCES[s], item, details)]]]

\* every listing of a table of built listings
ListingsOf(built) ==
  UNION { UNION { Range(built[s][item]) : item \in DOMAIN built[s] } :
          s \in DOMAIN built }

AllListings == ListingsOf(Built)

KeyOf == [l \in AllListings |-> DedupeKey(l)]

\* the dedupe loop with the canonical URL as the key of every listing
DedupeOnUrl(combined) ==
  DedupeFrom(combined, [i \in 1..Len(combined) |-> combined[i].url], {})

\* lines 514-521 on the listings of the model
Dedupe(combined) ==
  DedupeFrom(combined, [i \in 1..Len(combined) |-> KeyOf[combined[i]]], {})

----------------------------------------------------------------------------
(* The state: the process-wide _cache, the wall clock, and the request     *)
(* threads of the Flask server, each at a position in its handler.         *)

VARIABLES
  cache,    \* _cache: [ts, listings, by_id]
  clock,    \* time.time(), in seconds
  th,       \* per request thread: position, locals of refresh_cache, response
  fn        \* the pure function under test: [name, arg, res]

vars == <<cache, clock, th, fn>>

\* the clock when the process starts, and the seconds one tick adds
BootTime == 100000

TickSeconds == 900

MaxTicks == 2

MaxClock == BootTime + MaxTicks * TickSeconds

Threads == {1, 2}

NoResponse == [status |-> 0, arg |-> "", body |-> <<>>, ts |-> 0]

IdleThread ==
  [pc |-> "idle", route |-> "none", force |-> FALSE, now |-> 0, src |-> 1,
   base_list |-> <<>>, i |-> 1, combined |-> <<>>, deduped |-> <<>>,
   found |-> <<>>, failed |-> <<>>, refreshed |-> FALSE, resp |-> NoResponse]

NoFn == [name |-> "none", arg |-> <<>>, res |-> <<>>]

\* _cache = {"ts": 0.0, "listings": [], "by_id": {}}
Init ==
  /\ cache = [ts |-> 0, listings |-> <<>>, by_id |-> <<>>]
  /\ clock = BootTime
  /\ th = [t \in Threads |-> IdleThread]
  /\ fn = NoFn

\* time passes
Tick ==
  /\ clock + TickSeconds <= MaxClock
  /\ clock' = clock + TickSeconds
  /\ UNCHANGED <<cache, th, fn>>

\* a request arrives at "/", "/refresh" or "/p/<listing_id>" and its handler
\* calls refresh_cache(force): force is True for "/refresh" only
Request(t, route) ==
  /\ th[t].pc = "idle"
  /\ th' = [th EXCEPT ![t] = [IdleThread EXCEPT !.pc = "refresh_cache",
                                                !.route = route,
                                                !.force = (route = "refresh")]]
  /\ UNCHANGED <<cache, clock, fn>>

\* refresh_cache with the freshness test comparing against the TTL the wrong
\* way round: now - _cache["ts"] > CACHE_TTL_SECONDS
RefreshBeginTestReversed(t) ==
  /\ th[t].pc = "refresh_cache"
  /\ LET now == clock
     IN IF ~th[t].force /\ now - cache.ts > CACHE_TTL_SECONDS /\ cache.listings # <<>>
        THEN th' = [th EXCEPT ![t].now = now, ![t].pc = "respond"]
        ELSE th' = [th EXCEPT ![t].now = now, ![t].pc = "search",
                              ![t].src = 1, ![t].combined = <<>>]
  /\ UNCHANGED <<cache, clock, fn>>

\* refresh_cache, lines 465-469: the freshness test
RefreshBegin(t) ==
  /\ th[t].pc = "refresh_cache"
  /\ LET now == clock
     IN IF ~th[t].force /\ now - cache.ts < CACHE_TTL_SECONDS /\ cache.listings # <<>>
        THEN th' = [th EXCEPT ![t].now = now, ![t].pc = "respond"]
        ELSE th' = [th EXCEPT ![t].now = now, ![t].pc = "search",
                              ![t].src = 1, ![t].combined = <<>>]
  /\ UNCHANGED <<cache, clock, fn>>

\* the locals of refresh_cache are gone when the handler has answered
Answered(r, resp) == [IdleThread EXCEPT !.route = r.route, !.resp = resp]

\* where the loops go after the current source is finished
AfterSource(r) ==
  IF r.src < Len(SOURCES)
  THEN [r EXCEPT !.pc = "search", !.src = r.src + 1, !.base_list = <<>>, !.i = 1]
  ELSE [r EXCEPT !.pc = "write_ts", !.base_list = <<>>, !.i = 1,
                 !.deduped = Dedupe(r.combined)]

\* line 478, base_list = search_fn(): the fetch of the search page raises,
\* and the exception leaves refresh_cache and the handler (a 500 response)
SearchRaises(t) ==
  /\ th[t].pc = "search"
  /\ th' = [th EXCEPT ![t] = Answered(th[t], [NoResponse EXCEPT !.status = 500])]
  /\ UNCHANGED <<cache, clock, fn>>

\* line 478, base_list = search_fn(): what the search of this source returns
\* for one of the pages (results[s] holds search_fn(SOURCES[s], page) per page)
Search(t, results) ==
  /\ th[t].pc = "search"
  /\ \E base_list \in results[th[t].src] :
       LET r == [th[t] EXCEPT !.found = Append(@, base_list)]
       IN th' = [th EXCEPT ![t] =
                   IF base_list = <<>> THEN AfterSource(r)
                   ELSE [r EXCEPT !.pc = "parse", !.base_list = base_list, !.i = 1]]
  /\ UNCHANGED <<cache, clock, fn>>

\* line 481, the loop over base_list: the next item, or the next source
AfterItem(r) ==
  IF r.i < Len(r.base_list) THEN [r EXCEPT !.i = r.i + 1] ELSE AfterSource(r)

\* the loop over base_list with the except branch skipping the candidate
\* (continue) instead of going on with details = {}
ParseDropsFailed(t) ==
  /\ th[t].pc = "parse"
  /\ \E details \in DetailsOf[th[t].src] :
       th' = [th EXCEPT ![t] =
                AfterItem([th[t] EXCEPT
                  !.combined = IF details = EmptyDetails THEN @
                               ELSE Append(@, Built[th[t].src][th[t].base_list[th[t].i]][details]),
                  !.failed = Append(@, details = EmptyDetails)])]
  /\ UNCHANGED <<cache, clock, fn>>

\* the loop over base_list publishing every listing at once:
\* _cache["listings"].append(listing) in the loop body
ParseStreams(t) ==
  /\ th[t].pc = "parse"
  /\ \E details \in DetailsOf[th[t].src] :
       /\ th' = [th EXCEPT ![t] =
                   AfterItem([th[t] EXCEPT
                     !.combined = Append(@, Built[th[t].src][th[t].base_list[th[t].i]][details]),
                     !.failed = Append(@, details = EmptyDetails)])]
       /\ cache' = [cache EXCEPT !.listings =
                      Append(@, Built[th[t].src][th[t].base_list[th[t].i]][details])]
  /\ UNCHANGED <<clock, fn>>

\* lines 481-512 for one item of base_list: parse_fn returns a dict or raises
Parse(t) ==
  /\ th[t].pc = "parse"
  /\ \E details \in DetailsOf[th[t].src] :
       th' = [th EXCEPT ![t] =
                AfterItem([th[t] EXCEPT
                  !.combined = Append(@, Built[th[t].src][th[t].base_list[th[t].i]][details]),
                  !.failed = Append(@, details = EmptyDetails)])]
  /\ UNCHANGED <<cache, clock, fn>>

\* lines 514-523: the dedupe loop, then _cache["ts"] = now
WriteTs(t) ==
  /\ th[t].pc = "write_ts"
  /\ cache' = [cache EXCEPT !.ts = th[t].now]
  /\ th' = [th EXCEPT ![t].pc = "write_listings"]
  /\ UNCHANGED <<clock, fn>>

\* line 524: _cache["listings"] = deduped
WriteListings(t) ==
  /\ th[t].pc = "write_listings"
  /\ cache' = [cache EXCEPT !.listings = th[t].deduped]
  /\ th' = [th EXCEPT ![t].pc = "write_by_id"]
  /\ UNCHANGED <<clock, fn>>

\* line 525: _cache["by_id"] = {l.id: l for l in deduped}; refresh_cache returns
WriteById(t) ==
  /\ th[t].pc = "write_by_id"
  /\ cache' = [cache EXCEPT !.by_id = IdIndex(th[t].deduped)]
  /\ th' = [th EXCEPT ![t].pc = "respond", ![t].refreshed = TRUE]
  /\ UNCHANGED <<clock, fn>>

\* index, lines 766-767: the sort of the cached listings
IndexSort(t) ==
  /\ th[t].pc = "respond"
  /\ th[t].route = "index"
  /\ \E sort \in SortArgs :
       th' = [th EXCEPT ![t].pc = "render",
                        ![t].resp = [NoResponse EXCEPT
                                       !.arg = sort,
                                       !.body = sort_listings(cache.listings, sort)]]
  /\ UNCHANGED <<cache, clock, fn>>

\* index, lines 769-780: the page shows the listings and _cache["ts"]
IndexRender(t) ==
  /\ th[t].pc = "render"
  /\ th' = [th EXCEPT ![t] = Answered(th[t], [th[t].resp EXCEPT !.status = 200,
                                                                !.ts = cache.ts])]
  /\ UNCHANGED <<cache, clock, fn>>

\* refresh, line 786: redirect(url_for("index"))
RefreshRedirect(t) ==
  /\ th[t].pc = "respond"
  /\ th[t].route = "refresh"
  /\ th' = [th EXCEPT ![t] = Answered(th[t], [NoResponse EXCEPT !.status = 302])]
  /\ UNCHANGED <<cache, clock, fn>>

\* property_detail, lines 792-796: _cache["by_id"].get(listing_id), 404 if None
PropertyDetail(t) ==
  /\ th[t].pc = "respond"
  /\ th[t].route = "property_detail"
  /\ \E listing_id \in ListingIdArgs :
       th' = [th EXCEPT ![t] = Answered(th[t],
                IF listing_id \in DOMAIN cache.by_id
                THEN [NoResponse EXCEPT !.status = 200, !.arg = listing_id,
                                        !.body = <<cache.by_id[listing_id]>>]
                ELSE [NoResponse EXCEPT !.status = 404, !.arg = listing_id])]
  /\ UNCHANGED <<cache, clock, fn>>

Step(t, results) ==
  \/ \E route \in {"index", "refresh", "property_detail"} : Request(t, route)
  \/ RefreshBegin(t)
  \/ SearchRaises(t)
  \/ Search(t, results)
  \/ Parse(t)
  \/ WriteTs(t)
  \/ WriteListings(t)
  \/ WriteById(t)
  \/ IndexSort(t)
  \/ IndexRender(t)
  \/ RefreshRedirect(t)
  \/ PropertyDetail(t)

\* one request at a time
Next == Tick \/ Step(1, SearchResults)

Spec == Init /\ [][Next]_vars

\* the server handles two requests at a time, on two threads
NextConc == Tick \/ \E t \in Threads : Step(t, SearchResultsSmall)

SpecConc == Init /\ [][NextConc]_vars

----------------------------------------------------------------------------
(* canonical_url and make_id as pure functions: the argument is a pair of  *)
(* URLs that differ in their fragment only, and each step canonicalises    *)
(* the latest pair once more.                                              *)

MaxUrlTail == 4

RECURSIVE StringsUpTo(_, _)
StringsUpTo(alphabet, n) ==
  IF n = 0 THEN { <<>> }
  ELSE LET shorter == StringsUpTo(alphabet, n - 1)
       IN shorter \cup { Append(s, c) : s \in shorter, c \in alphabet }

\* URLs without a fragment: no scheme, a scheme urllib does not know, https
UrlStems ==
  { pre \o tail : pre \in { <<>>, <<"x", ":">>, <<"h", "t", "t", "p", "s", ":">> },
                  tail \in StringsUpTo({"/", "?", ";", "a"}, MaxUrlTail) }

\* an empty fragment, and one that holds "#" and "/"
UrlFragments == { <<"#">>, <<"#", "a", "#", "/">> }

CanonOf(pair) ==
  [url |-> <<canonical_url(pair[1]), canonical_url(pair[2])>>,
   id |-> <<make_id(canonical_url(pair[1])), make_id(canonical_url(pair[2]))>>]

InitCanon ==
  /\ cache = [ts |-> 0, listings |-> <<>>, by_id |-> <<>>]
  /\ clock = BootTime
  /\ th = [t \in Threads |-> IdleThread]
  /\ \E stem \in UrlStems : \E fragment \in UrlFragments :
       fn = [name |-> "canonical_url", arg |-> <<stem, stem \o fragment>>, res |-> <<>>]

\* canonical_url, and make_id of its result, on the pair: first on the
\* argument, then on the canonical URLs already obtained
Canonicalise ==
  /\ fn.name = "canonical_url"
  /\ Len(fn.res) < 2
  /\ fn' = [fn EXCEPT !.res =
              Append(@, CanonOf(IF fn.res = <<>> THEN fn.arg ELSE fn.res[Len(fn.res)].url))]
  /\ UNCHANGED <<cache, clock, th>>

NextCanon == Canonicalise

SpecCanon == InitCanon /\ [][NextCanon]_vars

\* Both URLs of the pair have one canonical URL and one id
FragmentBlind ==
  (fn.name = "canonical_url" /\ Len(fn.res) >= 1) =>
    /\ fn.res[1].url[1] = fn.res[1].url[2]
    /\ fn.res[1].id[1] = fn.res[1].id[2]

\* Canonicalising a canonical URL gives it back
CanonIdempotent ==
  (fn.name = "canonical_url" /\ Len(fn.res) = 2) => fn.res[2].url = fn.res[1].url

(* C10: canonical_url is idempotent, canonical_url(canonical_url(u)) =      *)
(* canonical_url(u) for every URL u, and two URLs that differ only in      *)
(* their fragment have the same canonical URL and therefore the same id.   *)
C10_IdempotentAndFragmentBlind == CanonIdempotent /\ FragmentBlind

----------------------------------------------------------------------------
(* The claims about refresh_cache and the routes.                          *)

\* a call of refresh_cache that was a no-op has returned to its handler
ReturnedNoOp(t) == th[t].pc = "respond" /\ ~th[t].refreshed

\* a call of refresh_cache that replaced the cache has returned
ReturnedRefreshed(t) == th[t].pc = "respond" /\ th[t].refreshed

(* C1, as stated: a second refresh_cache(force=False) with less than the   *)
(* TTL elapsed since a completed first refresh performs no search or       *)
(* parse call and leaves the timestamp, the listings and by_id unchanged,  *)
(* whatever the first refresh obtained, zero listings included.  The cache *)
(* timestamp is not zero once a refresh has completed, and it is the time  *)
(* that refresh began: with less than the TTL elapsed since it, less has   *)
(* elapsed since the refresh completed.                                    *)
C1_NoOpSinceCompleted ==
  [][(/\ th[1].pc = "refresh_cache"
      /\ ~th[1].force
      /\ cache.ts # 0
      /\ clock - cache.ts < CACHE_TTL_SECONDS)
       => (/\ th'[1].pc \in {"refresh_cache", "respond"}
           /\ th'[1].found = th[1].found
           /\ cache' = cache)]_vars

(* C1, amended: a second refresh_cache(force=False) with less than the TTL *)
(* elapsed since the cache timestamp, which is the time the first refresh  *)
(* began, and with at least one listing left in the cache by the first     *)
(* refresh, performs no search or parse call and leaves the timestamp, the *)
(* listings and by_id unchanged.                                           *)
C1_NoOpWhileFresh ==
  [][(/\ th[1].pc = "refresh_cache"
      /\ ~th[1].force
      /\ clock - cache.ts < CACHE_TTL_SECONDS
      /\ cache.listings # <<>>)
       => (/\ th'[1].pc \in {"refresh_cache", "respond"}
           /\ th'[1].found = th[1].found
           /\ cache' = cache)]_vars

\* a later call inside the TTL window has returned without refreshing
C1_Witness ==
  /\ ReturnedNoOp(1)
  /\ ~th[1].force
  /\ cache.listings # <<>>
  /\ th[1].now > cache.ts
  /\ th[1].now - cache.ts < CACHE_TTL_SECONDS

(* C2: refresh_cache never ends in an error and always reaches the         *)
(* replacement of the cache, for every combination of failing search and   *)
(* parse calls: after a failing search the remaining sources are still     *)
(* processed, and a failing parse stops neither later candidates nor later *)
(* sources.                                                                *)
C2_RefreshNeverAborts ==
  /\ \A t \in Threads : th[t].resp.status # 500
  /\ \A t \in Threads :
       ReturnedRefreshed(t) =>
         /\ Len(th[t].found) = Len(SOURCES)
         /\ Len(th[t].combined) = Len(th[t].found[1]) + Len(th[t].found[2]) + Len(th[t].found[3])

(* C3: the cache is replaced as one unit: a reader (index or               *)
(* property_detail) interleaved with a running refresh never observes      *)
(* listings and by_id that come from different refreshes, that is, in      *)
(* every state a reader can observe by_id is the id-index of the listings. *)
C3_AtomicReplace ==
  (\E t \in Threads : /\ th[t].pc \in {"respond", "render"}
                      /\ th[t].route \in {"index", "property_detail"})
    => cache.by_id = IdIndex(cache.listings)

\* the items the three searches of a refresh returned, in source order
Candidates(t) == th[t].found[1] \o th[t].found[2] \o th[t].found[3]

\* the source that discovered the i-th candidate
SourceOfCandidate(t, i) ==
  IF i <= Len(th[t].found[1]) THEN SOURCES[1]
  ELSE IF i <= Len(th[t].found[1]) + Len(th[t].found[2]) THEN SOURCES[2]
  ELSE SOURCES[3]

\* the positions of a sequence that hold the first listing of their key
FirstOfKey(c) ==
  { i \in 1..Len(c) : \A j \in 1..(i - 1) : KeyOf[c[j]] # KeyOf[c[i]] }

\* the subsequence of c at the positions I
SubSeqAt(c, I) ==
  [k \in 1..Cardinality(I) |->
     c[CHOOSE i \in I : Cardinality({ j \in I : j <= i }) = k]]

(* C4: after a refresh the cached listings are exactly the subsequence of  *)
(* the combined sequence (sources in the order raywhite, domain, rea;      *)
(* within a source in discovery order) that keeps the first listing of     *)
(* each dedup key and drops every later one; the listing of the earlier    *)
(* source is the one kept and no two cached listings share a key.          *)
C4_KeepFirstPerKey ==
  ReturnedRefreshed(1) =>
    LET c == th[1].combined
    IN /\ Len(c) = Len(Candidates(1))
       /\ \A i \in 1..Len(c) : /\ c[i].url = Candidates(1)[i].url
                               /\ c[i].source = SourceOfCandidate(1, i)
       /\ cache.listings = SubSeqAt(c, FirstOfKey(c))
       /\ \A i, j \in 1..Len(cache.listings) :
            i # j => KeyOf[cache.listings[i]] # KeyOf[cache.listings[j]]

\* two sources found listings of one key, and the later one was dropped
C4_Witness ==
  /\ ReturnedRefreshed(1)
  /\ \E i, j \in 1..Len(th[1].combined) :
       /\ i < j
       /\ th[1].combined[i].source # th[1].combined[j].source
       /\ KeyOf[th[1].combined[i]] = KeyOf[th[1].combined[j]]
       /\ th[1].combined[i] \in Range(cache.listings)
       /\ th[1].combined[j] \notin Range(cache.listings)

\* the ids make_id returns: ten hexadecimal digits
ValidId(id) == Len(id) = IdLen /\ \A k \in 1..Len(id) : id[k] \in Range(HexDigits)

\* each source found one URL, one parse raised, and the two listings whose
\* parse succeeded have titles of different keys
OneOfThreeFailed(t) ==
  /\ ReturnedRefreshed(t)
  /\ \A s \in 1..Len(SOURCES) : Len(th[t].found[s]) = 1
  /\ Cardinality({ i \in 1..Len(th[t].failed) : th[t].failed[i] }) = 1
  /\ \A i, j \in 1..Len(th[t].combined) :
       (i # j /\ ~th[t].failed[i] /\ ~th[t].failed[j])
         => KeyOf[th[t].combined[i]] # KeyOf[th[t].combined[j]]

SameKeyAndDeduplicated(t, a, b) ==
  \A i, j \in 1..Len(th[t].combined) :
    (th[t].combined[i].title = a /\ th[t].combined[j].title = b)
      => /\ KeyOf[th[t].combined[i]] = KeyOf[th[t].combined[j]]
         /\ ~(/\ th[t].combined[i] \in Range(cache.listings)
              /\ th[t].combined[j] \in Range(cache.listings))

\* a refresh built one listing titled a and one titled b
BothTitlesFound(t, a, b) ==
  /\ ReturnedRefreshed(t)
  /\ \E i, j \in 1..Len(th[t].combined) :
       th[t].combined[i].title = a /\ th[t].combined[j].title = b

(* C6, as stated: the dedup key is case-insensitive and ignores the region *)
(* tokens qld/queensland/australia and punctuation, so that the titles     *)
(* "5 Example St, Gladstone QLD 4680" and "5 EXAMPLE ST GLADSTONE" get the *)
(* same key and two listings carrying these titles are deduplicated to     *)
(* one.                                                                    *)
C6_SameKeyWithoutPostcode ==
  ReturnedRefreshed(1) => SameKeyAndDeduplicated(1, T_QLD, T_UPPER)

(* C6, amended: the dedup key is case-insensitive and ignores the region   *)
(* tokens qld/queensland/australia and punctuation, but keeps every other  *)
(* word, the postcode included: "5 Example St, Gladstone QLD 4680" and     *)
(* "5 EXAMPLE ST GLADSTONE 4680" get the same key, "5 example st gladstone *)
(* 4680", and two listings carrying these titles are deduplicated to one,  *)
(* while "5 EXAMPLE ST GLADSTONE" gets another key and is kept beside      *)
(* them.                                                                   *)
C6_SameKeyWithPostcode ==
  ReturnedRefreshed(1) =>
    /\ SameKeyAndDeduplicated(1, T_QLD, T_UPPER_POSTCODE)
    /\ \A i \in 1..Len(th[1].combined) :
         /\ th[1].combined[i].title \in {T_QLD, T_UPPER_POSTCODE}
              => KeyOf[th[1].combined[i]] = Lower(T_UPPER_POSTCODE)
         /\ th[1].combined[i].title = T_UPPER
              => /\ KeyOf[th[1].combined[i]] = Lower(T_UPPER)
                 /\ th[1].combined[i] \in Range(cache.listings)

\* a refresh found both titles of the amended pair
C6_Witness == BothTitlesFound(1, T_QLD, T_UPPER_POSTCODE)

\* the calls of refresh_cache that have not yet reached the replacement
Refreshing == {"refresh_cache", "search", "parse"}

(* C7: refresh_cache(force=True) always runs the search of all three       *)
(* sources and replaces the cache and its timestamp, in every cache state: *)
(* empty, fresh or stale.                                                  *)
C7_ForceAlwaysReplaces ==
  [][/\ (th[1].force /\ th[1].pc \in Refreshing)
          => th'[1].pc \in Refreshing \cup {"write_ts"}
     /\ (th'[1].force /\ th'[1].pc = "respond")
          => /\ th'[1].refreshed
             /\ Len(th'[1].found) = Len(SOURCES)
             /\ cache'.ts = th'[1].now
             /\ cache'.listings = th'[1].deduped
             /\ cache'.by_id = IdIndex(th'[1].deduped)]_vars

(* C8: after any sequence of completed refreshes, property_detail returns  *)
(* the cached listing whose id is the requested id when the cache holds    *)
(* one, and 404 otherwise: by_id has an entry for every cached listing,    *)
(* maps each cached listing's id to that same listing, and has no entry    *)
(* for an id that no cached listing carries.                               *)
C8_ByIdResolvesEveryListing ==
  th[1].pc \in {"idle", "refresh_cache", "respond", "render"} =>
    /\ \A i \in 1..Len(cache.listings) :
         /\ cache.listings[i].id \in DOMAIN cache.by_id
         /\ cache.by_id[cache.listings[i].id] = cache.listings[i]
    /\ \A id \in DOMAIN cache.by_id :
         \E i \in 1..Len(cache.listings) : cache.listings[i].id = id
    /\ (th[1].route = "property_detail" /\ th[1].resp.status = 200) =>
         /\ th[1].resp.body[1].id = th[1].resp.arg
         /\ \A i \in 1..Len(cache.listings) :
              cache.listings[i].id = th[1].resp.arg
                => cache.listings[i] = th[1].resp.body[1]
    /\ (th[1].route = "property_detail" /\ th[1].resp.status = 404) =>
         \A i \in 1..Len(cache.listings) : cache.listings[i].id # th[1].resp.arg

----------------------------------------------------------------------------
(* sort_listings as a pure function: the argument is a list of listings    *)
(* and a sort key, and the step sorts it.                                  *)

MaxSortLen == 3

AscendingKeys == { "price_asc", "land_asc", "beds_asc", "baths_asc" }

DescendingKeys == { "price_desc", "land_desc", "beds_desc", "baths_desc" }

\* the numbers of a listing: none, the numbers of two pages whose price and
\* land are in opposite order, and a price or a land that float() or the
\* product overflowed to inf (a text of more than 309 digits)
SortValues ==
  { [price_num |-> None, land_m2 |-> None, beds |-> None, baths |-> None],
    [price_num |-> parse_money_best_effort(RW_DETAILS.price_text),
     land_m2 |-> parse_land_to_m2_best_effort(RW_DETAILS.land_text),
     beds |-> Some(Int3), baths |-> Some(Int1)],
    [price_num |-> parse_money_best_effort(DM_DETAILS.price_text),
     land_m2 |-> parse_land_to_m2_best_effort(DM_DETAILS.land_text),
     beds |-> Some(Int2), baths |-> Some(Int2)],
    [price_num |-> Some(PosInf), land_m2 |-> None, beds |-> None, baths |-> Some(Int1)],
    [price_num |-> None, land_m2 |-> Some(PosInf), beds |-> Some(Int2), baths |-> None] }

\* the URL and the id of the i-th listing of a list
SortUrls ==
  [i \in 1..MaxSortLen |-> RAYWHITE_BASE \o <<"/", "p", "r", "o", "p", "e", "r", "t", "i", "e", "s", "/">> \o <<DigitChars[i + 1]>>]

SortIds == [i \in 1..MaxSortLen |-> make_id(SortUrls[i])]

\* the i-th listing of the list, with the numbers v
SortListing(i, v) ==
  Listing(SortIds[i], "raywhite", SortUrls[i], SortUrls[i], None, None,
          v.price_num, v.beds, v.baths, None, None, v.land_m2, None, None)

SortLists ==
  UNION { { [i \in 1..n |-> SortListing(i, vs[i])] : vs \in [1..n -> SortValues] } :
          n \in 0..MaxSortLen }

InitSort ==
  /\ cache = [ts |-> 0, listings |-> <<>>, by_id |-> <<>>]
  /\ clock = BootTime
  /\ th = [t \in Threads |-> IdleThread]
  /\ \E listings \in SortLists :
       \E sort_key \in AscendingKeys \cup DescendingKeys \cup {"newest"} :
         fn = [name |-> "sort_listings", arg |-> <<listings, sort_key>>, res |-> <<>>]

\* sort_listings(listings, sort_key): res holds the list it returns and the
\* list it was given, which sorted() leaves alone
SortListings ==
  /\ fn.name = "sort_listings"
  /\ fn.res = <<>>
  /\ fn' = [fn EXCEPT !.res = <<[returned |-> sort_listings(fn.arg[1], fn.arg[2]),
                                 given |-> fn.arg[1]]>>]
  /\ UNCHANGED <<cache, clock, th>>

NextSort == SortListings

SpecSort == InitSort /\ [][NextSort]_vars

\* the optional number a sort key orders by
SortField(l, sort_key) ==
  CASE sort_key \in {"price_asc", "price_desc"} -> l.price_num
    [] sort_key \in {"land_asc", "land_desc"} -> l.land_m2
    [] sort_key \in {"beds_asc", "beds_desc"} -> l.beds
    [] sort_key \in {"baths_asc", "baths_desc"} -> l.baths

\* out holds the elements of inp, each as often as inp does
IsPermutation(out, inp) ==
  /\ Len(out) = Len(inp)
  /\ \E p \in [1..Len(inp) -> 1..Len(inp)] :
       /\ \A i, j \in 1..Len(inp) : i # j => p[i] # p[j]
       /\ \A i \in 1..Len(inp) : out[i] = inp[p[i]]

\* the position of a listing in a list of distinct listings
PositionIn(inp, l) == CHOOSE i \in 1..Len(inp) : inp[i] = l

\* a comes before b in the requested direction
SortsBefore(a, b, sort_key) ==
  IF sort_key \in AscendingKeys THEN FloatLess(a, b) ELSE FloatLess(b, a)

\* a directed sort has returned
Sorted ==
  /\ fn.name = "sort_listings"
  /\ fn.res # <<>>
  /\ fn.arg[2] \in AscendingKeys \cup DescendingKeys

----------------------------------------------------------------------------
(* The search functions and the loop body of refresh_cache as functions of *)
(* a results page: a source and its page are drawn, the search function    *)
(* of the source returns its candidates, and refresh_cache builds one      *)
(* listing per candidate.                                                  *)

MaxAnchors == 2

\* the text of the anchors of the drawn pages
T_LINK == <<"5", " ", "E", "x", "a", "m", "p", "l", "e", " ", "S", "t">>

\* per source, the href of a listing: alone, with a fragment, with one
\* more query parameter, and with both
DiscoverHrefs(source_name) ==
  LET h == CASE source_name = "raywhite" -> <<"/", "p", "r", "o", "p", "e", "r", "t", "i", "e", "s", "/", "5", "-", "e", "x", "a", "m", "p", "l", "e", "-", "s", "t">>
             [] source_name = "domain" -> <<"/", "5", "-", "e", "x", "a", "m", "p", "l", "e", "-", "s", "t", "-", "1", "2", "3", "4", "5", "6", "8">>
             [] source_name = "rea" -> <<"/", "p", "r", "o", "p", "e", "r", "t", "y", "-", "l", "a", "n", "d", "-", "q", "l", "d", "-", "7", "0", "0", "0", "0", "0", "1">>
  IN { h, h \o <<"#", "m", "a", "p">>, h \o <<"?", "u", "t", "m", "=", "1">>, h \o <<"?", "u", "t", "m", "=", "1", "#", "m", "a", "p">> }

DiscoverPages(source_name) ==
  UNION { [1..n -> { Anchor(h, T_LINK) : h \in DiscoverHrefs(source_name) }] :
          n \in 0..MaxAnchors }

\* the URL a search function makes of an href before it is canonicalised
FullUrl(source_name, href) ==
  CASE source_name = "raywhite" -> urljoin(RAYWHITE_BASE, href)
    [] source_name = "domain" -> urljoin(DOMAIN_BASE, Strip(href))
    [] source_name = "rea" -> urljoin(REA_BASE, Strip(href))

InitDiscover ==
  /\ cache = [ts |-> 0, listings |-> <<>>, by_id |-> <<>>]
  /\ clock = BootTime
  /\ th = [t \in Threads |-> IdleThread]
  /\ \E s \in SourceIndex : \E page \in DiscoverPages(SOURCES[s]) :
       fn = [name |-> "search_fn", arg |-> [src |-> s, page |-> page], res |-> <<>>]

\* base_list = search_fn()
Discover ==
  /\ fn.name = "search_fn"
  /\ fn.res = <<>>
  /\ fn' = [fn EXCEPT !.res = <<[base_list |-> search_fn(SOURCES[fn.arg.src], fn.arg.page),
                                 listings |-> <<>>]>>]
  /\ UNCHANGED <<cache, clock, th>>

\* the loop body for the next item of base_list: parse_fn returns a dict or
\* raises, and the listing is appended to combined
BuildNext ==
  /\ fn.name = "search_fn"
  /\ fn.res # <<>>
  /\ Len(fn.res[1].listings) < Len(fn.res[1].base_list)
  /\ \E details \in DetailsOf[fn.arg.src] :
       fn' = [fn EXCEPT !.res[1].listings =
                Append(@, BuildListing(SOURCES[fn.arg.src],
                                       fn.res[1].base_list[Len(fn.res[1].listings) + 1],
                                       details))]
  /\ UNCHANGED <<cache, clock, th>>

NextDiscover == Discover \/ BuildNext

SpecDiscover == InitDiscover /\ [][NextDiscover]_vars

\* b is a with a fragment appended
DiffersByFragment(a, b) ==
  /\ "#" \notin Range(a)
  /\ Len(b) > Len(a)
  /\ SubSeq(b, 1, Len(a)) = a
  /\ b[Len(a) + 1] = "#"

\* b is a with one more query parameter appended
DiffersByQueryParameter(a, b) ==
  /\ "#" \notin Range(a)
  /\ Len(b) > Len(a) + 1
  /\ SubSeq(b, 1, Len(a)) = a
  /\ b[Len(a) + 1] = (IF "?" \in Range(a) THEN "&" ELSE "?")
  /\ \A k \in (Len(a) + 2)..Len(b) : b[k] \notin {"#", "?", "&"}

\* the discovered URL of the i-th anchor of the drawn page
FullOfAnchor(i) == FullUrl(SOURCES[fn.arg.src], fn.arg.page[i].href)

\* no listing built so far has a fragment in its url
ListingsWithoutFragment ==
  \A k \in 1..Len(fn.res[1].listings) : "#" \notin Range(fn.res[1].listings[k].url)

\* the anchors i and j of the drawn page have one canonical url, at most one
\* candidate of the search has it, and the listings built with the
\* canonical url of either have one id
OneIdentity(i, j) ==
  /\ canonical_url(FullOfAnchor(i)) = canonical_url(FullOfAnchor(j))
  /\ Cardinality({ k \in 1..Len(fn.res[1].base_list) :
                     fn.res[1].base_list[k].url \in
                       { canonical_url(FullOfAnchor(i)), canonical_url(FullOfAnchor(j)) } }) <= 1
  /\ \A k, m \in 1..Len(fn.res[1].listings) :
       fn.res[1].listings[k].url \in
           { canonical_url(FullOfAnchor(i)), canonical_url(FullOfAnchor(j)) }
       /\ fn.res[1].listings[m].url \in
           { canonical_url(FullOfAnchor(i)), canonical_url(FullOfAnchor(j)) }
       => fn.res[1].listings[k].id = fn.res[1].listings[m].id

\* C11: every listing refresh_cache builds for the cache has a canonical
\* url (no fragment), and two discovered URLs of one page that differ only
\* by a fragment or only by one more query parameter have the same
\* canonical url and the same id, and the search returns a single candidate
\* for them.
C11_FragmentOrParameterCollapse ==
  fn.res # <<>> =>
    /\ ListingsWithoutFragment
    /\ \A i, j \in 1..Len(fn.arg.page) :
         \/ DiffersByFragment(FullOfAnchor(i), FullOfAnchor(j))
         \/ DiffersByQueryParameter(FullOfAnchor(i), FullOfAnchor(j))
         => OneIdentity(i, j)

\* C11, amended: every listing refresh_cache builds for the cache has a url
\* without a fragment, and two discovered URLs of one page that differ only
\* by a fragment have the same canonical url and the same id, and the
\* search returns a single candidate for them.
C11_FragmentCollapse ==
  fn.res # <<>> =>
    /\ ListingsWithoutFragment
    /\ \A i, j \in 1..Len(fn.arg.page) :
         DiffersByFragment(FullOfAnchor(i), FullOfAnchor(j)) => OneIdentity(i, j)

\* a page with a link and the same link with a fragment, for which the
\* search returned one candidate and refresh_cache built its listing
C11_Witness ==
  /\ fn.res # <<>>
  /\ \E i, j \in 1..Len(fn.arg.page) :
       DiffersByFragment(FullOfAnchor(i), FullOfAnchor(j))
  /\ Len(fn.res[1].base_list) = 1
  /\ Len(fn.res[1].listings) = 1

----------------------------------------------------------------------------
(* Staleness.  A read is a request of index or property_detail; it began   *)
(* at th[t].now, the time.time() of its refresh_cache call, and it takes   *)
(* its answer from the cache at "respond" (and, for index, at "render").   *)

Reads == {"index", "property_detail"}

\* the thread has returned from refresh_cache and reads the cache to answer
AnswersFromCache(t) ==
  /\ th[t].route \in Reads
  /\ th[t].pc \in {"respond", "render"}

\* the cache as the read that began at now finds it: TTL or more elapsed
\* since its timestamp (the timestamp is 0 at process start)
StaleAt(now) == now - cache.ts >= CACHE_TTL_SECONDS

\* C12: the cache is stale at process start; a read that begins when the
\* cache is stale runs a full refresh before it answers, so a read never
\* takes its answer from a cache whose timestamp is TTL or more older than
\* the time the read began.  (It is an invariant of Spec, where one request
\* runs at a time, and fails with two request threads.)
C12_ReadNeverAnswersStale ==
  /\ cache.ts = 0 => StaleAt(clock)
  /\ \A t \in Threads :
       AnswersFromCache(t) => ~StaleAt(th[t].now)

----------------------------------------------------------------------------
(* The candidates whose parse_fn raised.                                   *)

\* the candidates discovered so far by the refresh of thread t, in source
\* then discovery order: combined[i] is built from the i-th of them
CandidatesSoFar(t) ==
  IF Len(th[t].found) = 0 THEN <<>>
  ELSE IF Len(th[t].found) = 1 THEN th[t].found[1]
  ELSE IF Len(th[t].found) = 2 THEN th[t].found[1] \o th[t].found[2]
  ELSE th[t].found[1] \o th[t].found[2] \o th[t].found[3]

\* every field a parse function fills is None
NoEnrichedField(l) ==
  /\ l.image_url = None
  /\ l.price_text = None
  /\ l.price_num = None
  /\ l.beds = None
  /\ l.baths = None
  /\ l.cars = None
  /\ l.land_text = None
  /\ l.land_m2 = None
  /\ l.property_type = None
  /\ l.suburb_postcode = None

\* canonical_url of the url of every candidate, and make_id of every
\* canonical url, tabulated
CanonicalOf ==
  [u \in { item.url : item \in UNION Range(Items) } |-> canonical_url(u)]

IdOf == [u \in Range(CanonicalOf) |-> make_id(u)]

\* the listing l is the one built for the candidate item without details
BuiltWithoutDetails(l, item) ==
  /\ l.url = CanonicalOf[item.url]
  /\ "#" \notin Range(l.url)
  /\ l.id = IdOf[l.url]
  /\ ValidId(l.id)
  /\ l.title = (IF Truthy(item.title) THEN item.title[1] ELSE l.url)
  /\ NoEnrichedField(l)

\* C13: a candidate whose parse_fn raised is not dropped: refresh_cache
\* builds a listing for every candidate it has gone through, and the
\* listing of a candidate whose parse_fn raised has the canonical url of the
\* candidate, id = make_id(url), the discovery-time title, or the url when
\* discovery gave no title, and no enriched field.  (Stated of the listing
\* built last, which every listing of combined once was.)
C13_FailedCandidateListed ==
  \A t \in Threads :
    /\ Len(th[t].combined) = Len(th[t].failed)
    /\ (th[t].failed # <<>> /\ th[t].failed[Len(th[t].failed)]) =>
         /\ Len(th[t].combined) <= Len(CandidatesSoFar(t))
         /\ BuiltWithoutDetails(th[t].combined[Len(th[t].combined)],
                                CandidatesSoFar(t)[Len(th[t].combined)])

\* a refresh has returned after parse_fn raised for a candidate with a
\* discovery-time title and for a candidate without one
C13_Witness ==
  /\ ReturnedRefreshed(1)
  /\ \E i, j \in 1..Len(th[1].failed) :
       /\ th[1].failed[i]
       /\ th[1].failed[j]
       /\ Truthy(CandidatesSoFar(1)[i].title)
       /\ ~Truthy(CandidatesSoFar(1)[j].title)
       /\ th[1].combined[j].title = th[1].combined[j].url

----------------------------------------------------------------------------
(* Two refreshes at once.                                                  *)

\* the cache is what the refresh of thread t wrote
CacheFrom(t) ==
  /\ cache.ts = th[t].now
  /\ cache.listings = th[t].deduped
  /\ cache.by_id = IdIndex(th[t].deduped)

\* C14: once two refreshes that were not forced, so that each found the
\* cache stale, have both finished, the cache timestamp, listings and by_id all come from one and the same
\* refresh, and by_id is the id-index of listings, also when the two
\* refreshes obtained different listings.
C14_ConcurrentRefreshesAgree ==
  (\A t \in Threads : ReturnedRefreshed(t) /\ ~th[t].force) =>
    /\ \E t \in Threads : CacheFrom(t)
    /\ cache.by_id = IdIndex(cache.listings)

----------------------------------------------------------------------------
(* All or nothing.                                                         *)

\* the three assignments at the end of refresh_cache
Writing == {"write_ts", "write_listings", "write_by_id"}

\* the step is a step of thread t
Moves(t) == th'[t] # th[t]

\* C15: the cache is written only at the end of a refresh that completes:
\* a step of a request outside the three final assignments leaves the
\* timestamp, the listings and by_id as they are, a refresh that ends in an
\* error has not reached the assignments and leaves the cache as it was,
\* a refresh that has reached them has searched all three sources, built a
\* listing for every candidate and returns without error, and the listings
\* it writes are the deduplicated listings of all three sources.
C15_AllOrNothing ==
  [][\A t \in Threads :
       /\ (Moves(t) /\ th[t].pc \notin Writing) => cache' = cache
       /\ (Moves(t) /\ th'[t].resp.status = 500) =>
            /\ th[t].pc \in Refreshing
            /\ cache' = cache
       /\ (Moves(t) /\ th[t].pc \in Writing) =>
            /\ Len(th[t].found) = Len(SOURCES)
            /\ Len(th[t].combined) = Len(CandidatesSoFar(t))
            /\ th'[t].pc \in Writing \cup {"respond"}
            /\ th'[t].resp.status = 0
            /\ cache'.listings \in {cache.listings, th[t].deduped}]_vars

\* a refresh has ended in an error after an earlier refresh had filled the
\* cache, which still holds the listings of the earlier one
C15_Witness ==
  /\ th[1].pc = "idle"
  /\ th[1].resp.status = 500
  /\ cache.listings # <<>>
  /\ cache.by_id = IdIndex(cache.listings)

----------------------------------------------------------------------------
(* The rendered fetch: domain_fetch_html and rea_fetch_html call           *)
(* fetch_html_chromium, which starts Playwright, launches a browser, opens *)
(* a context and a page, navigates, waits, captures the content and closes *)
(* the context and the browser; every Playwright call can raise.           *)

\* what domain_fetch_html and rea_fetch_html pass as wait_ms
WaitMs(source_name) == IF source_name = "domain" THEN 2500 ELSE 3000

DOMAIN_SEARCH_URL == <<"h", "t", "t", "p", "s", ":", "/", "/", "w", "w", "w", ".", "d", "o", "m", "a", "i", "n", ".", "c", "o", "m", ".", "a", "u", "/", "s", "a", "l", "e", "/", "g", "l", "a", "d", "s", "t", "o", "n", "e", "-", "q", "l", "d", "-", "4", "6", "8", "0", "/", "?", "p", "t", "y", "p", "e", "=", "n", "e", "w", "-", "l", "a", "n", "d", ",", "v", "a", "c", "a", "n", "t", "-", "l", "a", "n", "d", "&", "l", "a", "n", "d", "s", "i", "z", "e", "=", "1", "0", "0", "0", "-", "a", "n", "y", "&", "l", "a", "n", "d", "s", "i", "z", "e", "u", "n", "i", "t", "=", "m", "2">>

REA_SEARCH_URL == <<"h", "t", "t", "p", "s", ":", "/", "/", "w", "w", "w", ".", "r", "e", "a", "l", "e", "s", "t", "a", "t", "e", ".", "c", "o", "m", ".", "a", "u", "/", "b", "u", "y", "/", "s", "i", "z", "e", "-", "1", "0", "0", "0", "-", "i", "n", "-", "g", "l", "a", "d", "s", "t", "o", "n", "e", "+", "-", "+", "g", "r", "e", "a", "t", "e", "r", "+", "r", "e", "g", "i", "o", "n", ",", "+", "q", "l", "d", "/", "l", "i", "s", "t", "-", "1">>

\* the url of the search page of a source that is fetched with Chromium
RenderedSearchUrl(source_name) ==
  IF source_name = "domain" THEN DOMAIN_SEARCH_URL ELSE REA_SEARCH_URL

\* the sources whose fetch prefers Chromium
RenderedSources == { s \in SourceIndex : SOURCES[s] \in {"domain", "rea"} }

\* the urls the search and parse functions of a source fetch
FetchedUrls(s) == {RenderedSearchUrl(SOURCES[s])} \cup { item.url : item \in Items[s] }

\* a call of domain_fetch_html(url) or rea_fetch_html(url) for the search url
\* or the url of an item, in a process where the import of playwright
\* succeeded or failed
InitFetch ==
  /\ cache = [ts |-> 0, listings |-> <<>>, by_id |-> <<>>]
  /\ clock = BootTime
  /\ th = [t \in Threads |-> IdleThread]
  /\ \E s \in RenderedSources : \E url \in FetchedUrls(s) : \E available \in BOOLEAN :
       fn = [name |-> "fetch_html", src |-> s, url |-> url,
             PLAYWRIGHT_AVAILABLE |-> available, wait_ms |-> 0,
             pc |-> "fetch_html", playwright |-> "none", browser |-> "none",
             context |-> "none", page |-> "none", html |-> "none",
             raised_at |-> "none", outcome |-> "running"]

\* the call has ended with an exception raised at the step pc
Raised(f, pc) == [f EXCEPT !.pc = "done", !.raised_at = pc, !.outcome = "raised"]

\* an exception raised at the step pc inside the with block leaves the block
Unwinds(f, pc) == [f EXCEPT !.pc = "with_exit", !.raised_at = pc]

\* domain_fetch_html / rea_fetch_html: Chromium when the toggle is on and
\* Playwright was imported, else requests
FetchHtml ==
  /\ fn.name = "fetch_html"
  /\ fn.pc = "fetch_html"
  /\ fn' = IF fn.PLAYWRIGHT_AVAILABLE
             THEN [fn EXCEPT !.pc = "fetch_html_chromium",
                             !.wait_ms = WaitMs(SOURCES[fn.src])]
             ELSE [fn EXCEPT !.pc = "fetch_html_requests"]
  /\ UNCHANGED <<cache, clock, th>>

\* fetch_html_requests: the text of the response, or the error of get or of
\* raise_for_status
FetchHtmlRequests ==
  /\ fn.name = "fetch_html"
  /\ fn.pc = "fetch_html_requests"
  /\ \/ fn' = [fn EXCEPT !.pc = "done", !.html = "text", !.outcome = "returned"]
     \/ fn' = Raised(fn, "fetch_html_requests")
  /\ UNCHANGED <<cache, clock, th>>

\* the test of PLAYWRIGHT_AVAILABLE and the entry of the with block:
\* sync_playwright() starts the Playwright driver, or raises
EnterPlaywright ==
  /\ fn.name = "fetch_html"
  /\ fn.pc = "fetch_html_chromium"
  /\ \/ /\ ~fn.PLAYWRIGHT_AVAILABLE
        /\ fn' = Raised(fn, "fetch_html_chromium")
     \/ /\ fn.PLAYWRIGHT_AVAILABLE
        /\ \/ fn' = [fn EXCEPT !.pc = "launch", !.playwright = "running"]
           \/ fn' = Raised(fn, "sync_playwright")
  /\ UNCHANGED <<cache, clock, th>>

\* browser = p.chromium.launch(headless=True)
Launch ==
  /\ fn.name = "fetch_html"
  /\ fn.pc = "launch"
  /\ \/ fn' = [fn EXCEPT !.pc = "new_context", !.browser = "open"]
     \/ fn' = Unwinds(fn, "launch")
  /\ UNCHANGED <<cache, clock, th>>

\* context = browser.new_context(user_agent=...)
NewContext ==
  /\ fn.name = "fetch_html"
  /\ fn.pc = "new_context"
  /\ \/ fn' = [fn EXCEPT !.pc = "new_page", !.context = "open"]
     \/ fn' = Unwinds(fn, "new_context")
  /\ UNCHANGED <<cache, clock, th>>

\* page = context.new_page()
NewPage ==
  /\ fn.name = "fetch_html"
  /\ fn.pc = "new_page"
  /\ \/ fn' = [fn EXCEPT !.pc = "goto", !.page = "blank"]
     \/ fn' = Unwinds(fn, "new_page")
  /\ UNCHANGED <<cache, clock, th>>

\* page.goto(url, wait_until="domcontentloaded", timeout=60000)
Goto ==
  /\ fn.name = "fetch_html"
  /\ fn.pc = "goto"
  /\ \/ fn' = [fn EXCEPT !.pc = "wait_for_timeout", !.page = "domcontentloaded"]
     \/ fn' = Unwinds(fn, "goto")
  /\ UNCHANGED <<cache, clock, th>>

\* page.wait_for_timeout(wait_ms)
WaitForTimeout ==
  /\ fn.name = "fetch_html"
  /\ fn.pc = "wait_for_timeout"
  /\ \/ fn' = [fn EXCEPT !.pc = "content", !.page = "settled"]
     \/ fn' = Unwinds(fn, "wait_for_timeout")
  /\ UNCHANGED <<cache, clock, th>>

\* html = page.content()
Content ==
  /\ fn.name = "fetch_html"
  /\ fn.pc = "content"
  /\ \/ fn' = [fn EXCEPT !.pc = "context_close", !.html = "content"]
     \/ fn' = Unwinds(fn, "content")
  /\ UNCHANGED <<cache, clock, th>>

\* context.close()
ContextClose ==
  /\ fn.name = "fetch_html"
  /\ fn.pc = "context_close"
  /\ \/ fn' = [fn EXCEPT !.pc = "browser_close", !.context = "closed", !.page = "closed"]
     \/ fn' = Unwinds(fn, "context_close")
  /\ UNCHANGED <<cache, clock, th>>

\* browser.close(), then return html leaves the with block
BrowserClose ==
  /\ fn.name = "fetch_html"
  /\ fn.pc = "browser_close"
  /\ \/ fn' = [fn EXCEPT !.pc = "with_exit", !.browser = "closed",
                         !.context = IF @ = "open" THEN "closed" ELSE @]
     \/ fn' = Unwinds(fn, "browser_close")
  /\ UNCHANGED <<cache, clock, th>>

\* what is left of a browser, context or page when the driver has ended
Ended(resource) == IF resource \in {"none", "closed"} THEN resource ELSE "ended"

\* the with block left without stopping what was started in it
WithExitLeavesRunning ==
  /\ fn.name = "fetch_html"
  /\ fn.pc = "with_exit"
  /\ fn' = [fn EXCEPT !.pc = "done",
                      !.outcome = IF fn.raised_at = "none" THEN "returned" ELSE "raised"]
  /\ UNCHANGED <<cache, clock, th>>

\* the exit of with sync_playwright(), by return or by an exception: it
\* stops Playwright, whose driver process ends and with it the browser the
\* driver launched, its contexts and pages; then the call returns or raises
WithExit ==
  /\ fn.name = "fetch_html"
  /\ fn.pc = "with_exit"
  /\ fn' = [fn EXCEPT !.pc = "done",
                      !.playwright = "stopped",
                      !.browser = Ended(@),
                      !.context = Ended(@),
                      !.page = Ended(@),
                      !.outcome = IF fn.raised_at = "none" THEN "returned" ELSE "raised"]
  /\ UNCHANGED <<cache, clock, th>>

NextFetch ==
  \/ FetchHtml
  \/ FetchHtmlRequests
  \/ EnterPlaywright
  \/ Launch
  \/ NewContext
  \/ NewPage
  \/ Goto
  \/ WaitForTimeout
  \/ Content
  \/ ContextClose
  \/ BrowserClose
  \/ WithExit

SpecFetch == InitFetch /\ [][NextFetch]_vars

\* the call has returned or raised
FetchEnded == fn.name = "fetch_html" /\ fn.outcome \in {"returned", "raised"}

====
